---- MODULE Spec2Model ----
(***************************************************************************)
(* Model of the process-invocation engine of the cursor-agent MCP wrapper  *)
(* (server.js): executable / path validators, environment sanitizer and    *)
(* the process supervisor inside invokeCursorAgent.                        *)
(*                                                                         *)
(* JavaScript strings are modelled as sequences of one-character strings,  *)
(* so that trim, startsWith, includes, path.normalize and path.resolve are *)
(* computed character by character as Node's POSIX implementation does.    *)
(***************************************************************************)
EXTENDS Integers, Sequences, FiniteSets, TLC

VARIABLES
    \* ---- validator runs (validateWorkingDirectory / validateFilePath) ----
    pathInput,      \* the raw argument handed to the validators
    wdResult,       \* outcome of validateWorkingDirectory(pathInput)
    fpResult,       \* outcome of validateFilePath(pathInput)
    wdAgain,        \* outcome of validating wdResult's path once more
    fpAgain,        \* outcome of validating fpResult's path once more
    pathStage,      \* "input" | "validated" | "revalidated" | "off"
    \* ---- process-wide configuration ----
    procEnv,                \* process.env: a function from variable names to strings
    validatedEnvCache,      \* <<>> for null, else <<the cached ENV_SCHEMA.parse result>>
    validatedEnvCacheKey,   \* <<>> for null, else <<the snapshot the cache was computed from>>
    \* ---- validator run (validateExecutablePath) ----
    explicitInput,  \* the explicit executable argument
    exeResult,      \* outcome of validateExecutablePath(explicitInput)
    exeStage,       \* "input" | "validated" | "off"
    \* ---- sanitizer run (getSafeEnvironment) ----
    safeEnvResult,  \* outcome of getSafeEnvironment()
    envStage,       \* "input" | "built" | "off"
    \* ---- one invocation (invokeCursorAgent) ----
    callArgs,       \* the executable and cwd arguments of the call, <<>> before it
    progressLogFile, \* the activity log established for the invocation, <<>> when none
    written,        \* the bytes the child has written to its stdout
    phase,          \* "idle" before the call, then "rejected" | "spawned" | "unspawned", or "off"
    rejection,      \* the error invokeCursorAgent rejected with, <<>> if none
    spawnCalls,     \* the calls of spawn() made so far, in order
    resolveCalls,   \* the values resolve() has been called with, in order
    settled,        \* let settled
    out,            \* let out
    err,            \* let err
    idleTimer,      \* "null" | "pending" | "fired" | "cleared"
    killedByIdle,   \* let killedByIdle
    mainTimer,      \* "unset" | "pending" | "fired" | "cleared"
    idleMs,         \* const idleMs
    timeoutMs,      \* const timeoutMs
    child,          \* "none" | "failing" | "running" | "exited" | "closed"
    exitCode,       \* the code of the close event: <<>> for null, else <<code>>
    errorEmitted,   \* the child has emitted its error event
    kills,          \* who has sent SIGKILL to the child
    signalState,    \* the cancellation signal: "none" | "armed" | "aborted"
    abortListener,  \* the invocation's listener is registered on the signal
    \* ---- argument vector composition (invokeCursorAgent / runCursorAgent) ----
    argvCall,       \* the arguments of the call, <<>> before it
    finalArgv,      \* outcome of the composition: the argv handed to spawn
    argvStage,      \* "input" | "composed" | "off"
    \* ---- stream decoder of an invocation ----
    onProgress,     \* the progress consumer: "none" when absent, "ok", or "throws" when it throws
    partialLine,    \* let partialLine
    accumulatedText, \* let accumulatedText
    toolCount,      \* let toolCount
    progressCalls,  \* the arguments onProgress has been called with, in order
    uncaught,       \* an exception has left one of the child's event handlers
    toolCall,       \* the tool or function called and its arguments, <<>> before it
    toolReturn,     \* what the call returned (Ok) or threw (Throw)
    toolSpawns,     \* what the call spawned a child process for
    toolStage       \* "input" before the call, "returned" after it

pathVars == <<pathInput, wdResult, fpResult, wdAgain, fpAgain, pathStage>>
cfgVars == <<procEnv, validatedEnvCache, validatedEnvCacheKey>>
exeVars == <<explicitInput, exeResult, exeStage>>
sanVars == <<safeEnvResult, envStage>>
supVars == <<callArgs, progressLogFile, written, phase, rejection, spawnCalls, resolveCalls, settled, out, err,
             idleTimer, killedByIdle, mainTimer, idleMs, timeoutMs,
             child, exitCode, errorEmitted, kills, signalState, abortListener>>

argvVars == <<argvCall, finalArgv, argvStage>>
decVars == <<partialLine, accumulatedText, toolCount, progressCalls, uncaught>>
streamVars == <<onProgress, partialLine, accumulatedText, toolCount, progressCalls, uncaught>>
toolVars == <<toolCall, toolReturn, toolSpawns, toolStage>>

vars == <<pathInput, wdResult, fpResult, wdAgain, fpAgain, pathStage,
          procEnv, validatedEnvCache, validatedEnvCacheKey,
          explicitInput, exeResult, exeStage,
          safeEnvResult, envStage,
          callArgs, progressLogFile, written, phase, rejection, spawnCalls, resolveCalls, settled, out, err,
          idleTimer, killedByIdle, mainTimer, idleMs, timeoutMs,
          child, exitCode, errorEmitted, kills, signalState, abortListener,
          argvCall, finalArgv, argvStage,
          onProgress, partialLine, accumulatedText, toolCount, progressCalls, uncaught,
          toolCall, toolReturn, toolSpawns, toolStage>>

-----------------------------------------------------------------------------
(* Bounds *)

\* longest path string handed to the working-directory / file validators
MaxPathLen == 5

\* longest raw CURSOR_AGENT_PATH value and longest explicit executable argument
MaxExeLen == 3

\* largest number of variables set in the ambient environment of a sanitizer run
MaxEnvVars == 2

\* largest number of stdout data events of one invocation
MaxOut == 2

\* largest number of stderr data events of one invocation
MaxErr == 1
MaxArgv == 3
MaxStream == 4
MaxChunk == 2

-----------------------------------------------------------------------------
(* String primitives of JavaScript *)

\* all strings over alphabet A of length at most n
Strs(A, n) == UNION {[1..k -> A] : k \in 0..n}

\* JavaScript undefined (an absent argument or variable); not a string of the model
Undefined == <<"undefined">>

\* a function's outcome: the value it returns or the error it throws
Ok(v) == [ok |-> TRUE, value |-> v]
Throw(e) == [ok |-> FALSE, error |-> e]

IsWs(c) == c = " "

RECURSIVE TrimStart(_)
TrimStart(s) ==
    IF s = <<>> THEN <<>>
    ELSE IF IsWs(Head(s)) THEN TrimStart(Tail(s)) ELSE s

RECURSIVE TrimEnd(_)
TrimEnd(s) ==
    IF s = <<>> THEN <<>>
    ELSE IF IsWs(s[Len(s)]) THEN TrimEnd(SubSeq(s, 1, Len(s) - 1)) ELSE s

\* String.prototype.trim
Trim(s) == TrimEnd(TrimStart(s))

\* String.prototype.startsWith
StartsWith(s, p) == Len(p) <= Len(s) /\ SubSeq(s, 1, Len(p)) = p

\* String.prototype.includes
Includes(s, p) ==
    \E i \in 1..(Len(s) - Len(p) + 1) : SubSeq(s, i, i + Len(p) - 1) = p

\* String.prototype.split(sep) for a one-character separator
RECURSIVE Split(_, _)
Split(s, sep) ==
    IF \A i \in 1..Len(s) : s[i] # sep THEN <<s>>
    ELSE LET i == CHOOSE j \in 1..Len(s) :
                      s[j] = sep /\ \A k \in 1..(j - 1) : s[k] # sep
         IN  <<SubSeq(s, 1, i - 1)>> \o Split(SubSeq(s, i + 1, Len(s)), sep)

\* Array.prototype.join(sep)
RECURSIVE Join(_, _)
Join(segs, sep) ==
    IF segs = <<>> THEN <<>>
    ELSE IF Len(segs) = 1 THEN segs[1]
    ELSE segs[1] \o <<sep>> \o Join(Tail(segs), sep)

-----------------------------------------------------------------------------
(* node:path, POSIX flavour *)

Sep == "/"
Dot == <<".">>
DotDot == <<".", ".">>

\* the segment stack normalizeString keeps while scanning the path
RECURSIVE NormSegs(_, _, _)
NormSegs(segs, res, allowAboveRoot) ==
    IF segs = <<>> THEN res
    ELSE LET seg == Head(segs)
             rest == Tail(segs)
         IN  IF seg = <<>> \/ seg = Dot
                THEN NormSegs(rest, res, allowAboveRoot)
             ELSE IF seg = DotDot
                THEN IF res # <<>> /\ res[Len(res)] # DotDot
                        THEN NormSegs(rest, SubSeq(res, 1, Len(res) - 1), allowAboveRoot)
                     ELSE IF allowAboveRoot
                        THEN NormSegs(rest, Append(res, DotDot), allowAboveRoot)
                     ELSE NormSegs(rest, res, allowAboveRoot)
             ELSE NormSegs(rest, Append(res, seg), allowAboveRoot)

\* path.js normalizeString(path, allowAboveRoot, '/', isPosixPathSeparator)
normalizeString(p, allowAboveRoot) ==
    Join(NormSegs(Split(p, Sep), <<>>, allowAboveRoot), Sep)

\* path.isAbsolute
isAbsolute(p) == Len(p) > 0 /\ p[1] = Sep

\* path.normalize
normalize(p) ==
    IF Len(p) = 0 THEN Dot
    ELSE LET abs == isAbsolute(p)
             trailingSeparator == p[Len(p)] = Sep
             n == normalizeString(p, ~abs)
         IN  IF Len(n) = 0
                THEN IF abs THEN <<Sep>>
                     ELSE IF trailingSeparator THEN <<".", Sep>> ELSE Dot
             ELSE LET t == IF trailingSeparator THEN n \o <<Sep>> ELSE n
                  IN  IF abs THEN <<Sep>> \o t ELSE t

\* process.cwd(): the base directory of the containment policy
BaseDir == <<"/", "x", "/", "r">>

\* path.resolve with a single argument, relative to process.cwd()
resolve(p) ==
    IF isAbsolute(p) THEN <<Sep>> \o normalizeString(p, FALSE)
    ELSE IF Len(p) = 0 THEN <<Sep>> \o normalizeString(BaseDir, FALSE)
    ELSE <<Sep>> \o normalizeString(BaseDir \o <<Sep>> \o p, FALSE)

-----------------------------------------------------------------------------
(* Environment variable schemas *)

\* Variable names are sequences of name atoms. No atom is a prefix of another
\* atom, so equality and startsWith on atom sequences coincide with equality
\* and startsWith on the names spelled out ("USERNAME" is <<"USER", "NAME">>).
K_EXECUTING_CLIENT == <<"EXECUTING", "_", "CLIENT">>
K_CURSOR_AGENT_PATH == <<"CURSOR", "_", "AGENT", "_", "PATH">>
K_DEBUG_CURSOR_MCP == <<"DEBUG", "_", "CURSOR", "_", "MCP">>
K_CURSOR_AGENT_ECHO_PROMPT == <<"CURSOR", "_", "AGENT", "_", "ECHO", "_", "PROMPT">>
K_CURSOR_AGENT_MODEL == <<"CURSOR", "_", "AGENT", "_", "MODEL">>
K_CURSOR_AGENT_FORCE == <<"CURSOR", "_", "AGENT", "_", "FORCE">>
K_CURSOR_AGENT_IDLE_EXIT_MS == <<"CURSOR", "_", "AGENT", "_", "IDLE", "_", "EXIT", "_", "MS">>
K_CURSOR_AGENT_TIMEOUT_MS == <<"CURSOR", "_", "AGENT", "_", "TIMEOUT", "_", "MS">>

\* the variables ENV_SCHEMA recognizes
RecognizedKeys ==
    {K_EXECUTING_CLIENT, K_CURSOR_AGENT_PATH, K_DEBUG_CURSOR_MCP,
     K_CURSOR_AGENT_ECHO_PROMPT, K_CURSOR_AGENT_MODEL, K_CURSOR_AGENT_FORCE,
     K_CURSOR_AGENT_IDLE_EXIT_MS, K_CURSOR_AGENT_TIMEOUT_MS}

\* process.env[key]
Get(env, key) == IF key \in DOMAIN env THEN env[key] ELSE Undefined

\* the environment holding no variable at all
EmptyEnv == [k \in {} |-> <<>>]

\* !val for an optional string
Falsy(val) == val = Undefined \/ val = <<>>

\* String.prototype.toLowerCase, on the letters the boolean words use
LowerChar(c) ==
    CASE c = "T" -> "t" [] c = "R" -> "r" [] c = "U" -> "u" [] c = "E" -> "e"
      [] c = "Y" -> "y" [] c = "S" -> "s" [] c = "O" -> "o" [] c = "N" -> "n"
      [] OTHER -> c

toLowerCase(s) == [i \in 1..Len(s) |-> LowerChar(s[i])]

booleanEnvSchema(val) ==
    IF Falsy(val) THEN FALSE
    ELSE LET lower == Trim(toLowerCase(val))
         IN  \/ lower = <<"1">>
             \/ lower = <<"t", "r", "u", "e">>
             \/ lower = <<"y", "e", "s">>
             \/ lower = <<"o", "n">>

Digits == {"0", "1", "2", "3", "4", "5", "6", "7", "8", "9"}

DigitVal(c) ==
    CASE c = "0" -> 0 [] c = "1" -> 1 [] c = "2" -> 2 [] c = "3" -> 3
      [] c = "4" -> 4 [] c = "5" -> 5 [] c = "6" -> 6 [] c = "7" -> 7
      [] c = "8" -> 8 [] c = "9" -> 9

\* the value of the longest prefix of decimal digits, acc being the value so far
RECURSIVE DigitsPrefix(_, _)
DigitsPrefix(s, acc) ==
    IF s = <<>> \/ Head(s) \notin Digits THEN acc
    ELSE DigitsPrefix(Tail(s), 10 * acc + DigitVal(Head(s)))

\* Number.parseInt(s, 10): <<>> stands for NaN, <<n>> for the integer n
parseInt(s) ==
    LET t == TrimStart(s)
        neg == t # <<>> /\ Head(t) = "-"
        signed == t # <<>> /\ Head(t) \in {"-", "+"}
        body == IF signed THEN Tail(t) ELSE t
    IN  IF body = <<>> \/ Head(body) \notin Digits THEN <<>>
        ELSE IF neg THEN <<0 - DigitsPrefix(body, 0)>>
        ELSE <<DigitsPrefix(body, 0)>>

\* <<>> stands for undefined, <<n>> for the parsed number of milliseconds
\* a schema that takes only integers above zero
positiveIntMsSchema_AboveZero(val) ==
    IF Falsy(val) THEN <<>>
    ELSE LET parsed == parseInt(Trim(val))
         IN  IF parsed = <<>> \/ parsed[1] <= 0 THEN <<>> ELSE parsed

positiveIntMsSchema(val) ==
    IF Falsy(val) THEN <<>>
    ELSE LET parsed == parseInt(Trim(val))
         IN  IF parsed = <<>> \/ parsed[1] < 0 THEN <<>> ELSE parsed

executablePathSchema(val) ==
    IF Falsy(val) \/ Trim(val) = <<>> THEN Ok(Undefined)
    ELSE LET trimmed == Trim(val)
             normalized == normalize(trimmed)
         IN  IF Includes(normalized, DotDot)
                  \/ (~isAbsolute(normalized) /\ Includes(normalized, <<Sep>>))
                THEN Throw("CURSOR_AGENT_PATH contains invalid path traversal")
             ELSE Ok(IF isAbsolute(normalized) THEN normalized ELSE trimmed)

\* z.enum(['cursor', 'clause']).optional()
ClientEnum == {<<"c", "u", "r", "s", "o", "r">>, <<"c", "l", "a", "u", "s", "e">>}

executingClientSchema(val) ==
    IF val = Undefined \/ val \in ClientEnum THEN Ok(val) ELSE Throw("invalid enum value")

\* z.string().trim().min(1).optional()
modelSchema(val) ==
    IF val = Undefined THEN Ok(Undefined)
    ELSE IF Trim(val) = <<>> THEN Throw("too small") ELSE Ok(Trim(val))

\* ENV_SCHEMA.parse of the recognized variables of env
ENV_SCHEMA_parse(env) ==
    LET client == executingClientSchema(Get(env, K_EXECUTING_CLIENT))
        exe == executablePathSchema(Get(env, K_CURSOR_AGENT_PATH))
        model == modelSchema(Get(env, K_CURSOR_AGENT_MODEL))
    IN  IF ~client.ok THEN client
        ELSE IF ~exe.ok THEN exe
        ELSE IF ~model.ok THEN model
        ELSE Ok([EXECUTING_CLIENT |-> client.value,
                 CURSOR_AGENT_PATH |-> exe.value,
                 DEBUG_CURSOR_MCP |-> booleanEnvSchema(Get(env, K_DEBUG_CURSOR_MCP)),
                 CURSOR_AGENT_ECHO_PROMPT |-> booleanEnvSchema(Get(env, K_CURSOR_AGENT_ECHO_PROMPT)),
                 CURSOR_AGENT_MODEL |-> model.value,
                 CURSOR_AGENT_FORCE |-> booleanEnvSchema(Get(env, K_CURSOR_AGENT_FORCE)),
                 CURSOR_AGENT_IDLE_EXIT_MS |-> positiveIntMsSchema(Get(env, K_CURSOR_AGENT_IDLE_EXIT_MS)),
                 CURSOR_AGENT_TIMEOUT_MS |-> positiveIntMsSchema(Get(env, K_CURSOR_AGENT_TIMEOUT_MS))])

\* the cache key: JSON.stringify of the recognized variables' current values
CacheKey(env) == [k \in RecognizedKeys |-> Get(env, k)]

\* a getValidatedEnv that answers a snapshot that does not validate with the
\* cached value
getValidatedEnv_StaleOnError(env, cache, key) ==
    LET cacheKey == CacheKey(env)
        parsed == ENV_SCHEMA_parse(env)
    IN  IF (cache # <<>> /\ key = <<cacheKey>>) \/ ~parsed.ok
            THEN [ok |-> TRUE, value |-> cache[1], cache |-> cache, key |-> key]
        ELSE [ok |-> TRUE, value |-> parsed.value,
              cache |-> <<parsed.value>>, key |-> <<cacheKey>>]

\* a getValidatedEnv that serves whatever is cached
getValidatedEnv_AnyKey(env, cache, key) ==
    [ok |-> TRUE, value |-> cache[1], cache |-> cache, key |-> key]

\* getValidatedEnv after startup: the value returned or the error thrown,
\* together with the cache and cache key it leaves behind
getValidatedEnv(env, cache, key) ==
    LET cacheKey == CacheKey(env)
    IN  IF cache # <<>> /\ key = <<cacheKey>>
            THEN [ok |-> TRUE, value |-> cache[1], cache |-> cache, key |-> key]
        ELSE LET parsed == ENV_SCHEMA_parse(env)
             IN  IF parsed.ok
                    THEN [ok |-> TRUE, value |-> parsed.value,
                          cache |-> <<parsed.value>>, key |-> <<cacheKey>>]
                 ELSE [ok |-> FALSE, error |-> parsed.error, cache |-> cache, key |-> key]

-----------------------------------------------------------------------------
(* Security validation utilities *)

\* the name looked up on PATH
Sentinel == <<"c", "u", "r", "s", "o", "r", "-", "a", "g", "e", "n", "t">>

\* validateExecutablePath, given what its getValidatedEnv call returned
validateExecutablePath(explicit, got) ==
    IF ~got.ok THEN Throw(got.error)
    ELSE LET envPath == got.value.CURSOR_AGENT_PATH
         IN  IF Falsy(explicit) \/ Trim(explicit) = <<>>
                THEN IF envPath # Undefined THEN Ok(envPath) ELSE Ok(Sentinel)
             ELSE IF Trim(explicit) = Sentinel THEN Ok(Sentinel)
             ELSE IF envPath # Undefined /\ Trim(explicit) = envPath THEN Ok(envPath)
             ELSE Throw("Invalid executable path")

\* the containment test without the separator boundary
Contained_NoSeparator(resolved) ==
    LET baseDirResolved == resolve(BaseDir)
    IN  resolved = baseDirResolved \/ StartsWith(resolved, baseDirResolved)

\* resolved === base || resolved.startsWith(base + path.sep)
Contained(resolved) ==
    LET baseDirResolved == resolve(BaseDir)
    IN  resolved = baseDirResolved \/ StartsWith(resolved, baseDirResolved \o <<Sep>>)

\* containment checks whose second check rejects every input that still
\* holds '..' after normalization
ContainmentChecks_DotDotRejects(trimmed) ==
    LET resolved == resolve(trimmed)
        normalized == normalize(trimmed)
    IN  IF ~Contained(resolved) THEN Throw("outside")
        ELSE IF Includes(normalized, DotDot) THEN Throw("traversal")
        ELSE Ok(resolved)

\* the two checks shared by validateWorkingDirectory and validateFilePath
ContainmentChecks(trimmed) ==
    LET resolved == resolve(trimmed)
        normalized == normalize(trimmed)
    IN  IF ~Contained(resolved) THEN Throw("outside")
        ELSE IF Includes(normalized, DotDot) /\ ~Contained(resolve(normalized))
            THEN Throw("traversal")
        ELSE Ok(resolved)

validateWorkingDirectory(cwd) ==
    IF cwd = Undefined \/ Trim(cwd) = <<>> THEN Ok(BaseDir)
    ELSE ContainmentChecks(Trim(cwd))

validateFilePath(filePath) ==
    IF filePath = Undefined \/ Trim(filePath) = <<>> THEN Throw("required")
    ELSE ContainmentChecks(Trim(filePath))

-----------------------------------------------------------------------------
(* Environment sanitizer *)

whitelist ==
    {<<"PATH">>, <<"HOME">>, <<"USER">>, <<"USER", "NAME">>, <<"SHELL">>,
     <<"TMP", "DIR">>, <<"TEMP">>, <<"TMP">>,
     <<"NODE", "_", "VERSION">>,
     <<"LANG">>, <<"LANG", "UAGE">>,
     K_EXECUTING_CLIENT}

cursorAgentPrefix == <<"CURSOR", "_", "AGENT", "_">>
npmConfigPrefix == <<"NPM", "_", "CONFIG", "_">>
lcPrefix == <<"LC", "_">>

\* the scan's test with includes in place of startsWith
AllowedKey_Includes(key) ==
    \/ key \in whitelist
    \/ Includes(key, cursorAgentPrefix)
    \/ Includes(key, npmConfigPrefix)
    \/ Includes(key, lcPrefix)

\* a scan that copies every key of process.env
AllowedKey_EveryKey(key) == TRUE

\* the test the scan of process.env applies to a key
AllowedKey(key) ==
    \/ key \in whitelist
    \/ StartsWith(key, cursorAgentPrefix)
    \/ StartsWith(key, npmConfigPrefix)
    \/ StartsWith(key, lcPrefix)

\* String(n) for a non-negative integer
RECURSIVE String(_)
String(n) ==
    LET d == CHOOSE c \in Digits : DigitVal(c) = n % 10
    IN  IF n < 10 THEN <<d>> ELSE String(n \div 10) \o <<d>>

\* process.env.X || '1'
OrOne(val) == IF Falsy(val) THEN <<"1">> ELSE val

\* the entries getSafeEnvironment derives from the validated configuration
ValidatedEntries(env, v) ==
    LET keys ==
            {k \in RecognizedKeys :
                \/ k = K_EXECUTING_CLIENT /\ ~Falsy(v.EXECUTING_CLIENT)
                \/ k = K_CURSOR_AGENT_PATH /\ ~Falsy(v.CURSOR_AGENT_PATH)
                \/ k = K_DEBUG_CURSOR_MCP /\ v.DEBUG_CURSOR_MCP
                \/ k = K_CURSOR_AGENT_ECHO_PROMPT /\ v.CURSOR_AGENT_ECHO_PROMPT
                \/ k = K_CURSOR_AGENT_MODEL /\ ~Falsy(v.CURSOR_AGENT_MODEL)
                \/ k = K_CURSOR_AGENT_FORCE /\ v.CURSOR_AGENT_FORCE
                \/ k = K_CURSOR_AGENT_IDLE_EXIT_MS /\ v.CURSOR_AGENT_IDLE_EXIT_MS # <<>>
                \/ k = K_CURSOR_AGENT_TIMEOUT_MS /\ v.CURSOR_AGENT_TIMEOUT_MS # <<>>}
    IN  [k \in keys |->
            CASE k = K_EXECUTING_CLIENT -> v.EXECUTING_CLIENT
              [] k = K_CURSOR_AGENT_PATH -> v.CURSOR_AGENT_PATH
              [] k = K_DEBUG_CURSOR_MCP -> OrOne(Get(env, k))
              [] k = K_CURSOR_AGENT_ECHO_PROMPT -> OrOne(Get(env, k))
              [] k = K_CURSOR_AGENT_MODEL -> v.CURSOR_AGENT_MODEL
              [] k = K_CURSOR_AGENT_FORCE -> OrOne(Get(env, k))
              [] k = K_CURSOR_AGENT_IDLE_EXIT_MS -> String(v.CURSOR_AGENT_IDLE_EXIT_MS[1])
              [] k = K_CURSOR_AGENT_TIMEOUT_MS -> String(v.CURSOR_AGENT_TIMEOUT_MS[1])]

\* a getSafeEnvironment whose scan of process.env also writes the keys the
\* validated configuration has set
getSafeEnvironment_ScanOverwrites(env, got) ==
    IF ~got.ok THEN Throw(got.error)
    ELSE LET safeEnv == ValidatedEntries(env, got.value)
             scanned == {k \in DOMAIN env : AllowedKey(k)}
         IN  Ok([k \in DOMAIN safeEnv \cup scanned |->
                    IF k \in scanned THEN env[k] ELSE safeEnv[k]])

\* getSafeEnvironment, given what its getValidatedEnv call returned
getSafeEnvironment(env, got) ==
    IF ~got.ok THEN Throw(got.error)
    ELSE LET safeEnv == ValidatedEntries(env, got.value)
             scanned == {k \in DOMAIN env : AllowedKey(k) /\ k \notin DOMAIN safeEnv}
         IN  Ok([k \in DOMAIN safeEnv \cup scanned |->
                    IF k \in DOMAIN safeEnv THEN safeEnv[k] ELSE env[k]])

-----------------------------------------------------------------------------
(* Parts of the state a specification does not use *)

\* the cache as the startup call of getValidatedEnv leaves it, the server
\* having been started in an environment without recognized variables
StartupCache == <<ENV_SCHEMA_parse(EmptyEnv).value>>
StartupCacheKey == <<CacheKey(EmptyEnv)>>

NoResult == [ok |-> FALSE, error |-> "none"]

PathOff ==
    /\ pathInput = <<>>
    /\ wdResult = NoResult
    /\ fpResult = NoResult
    /\ wdAgain = NoResult
    /\ fpAgain = NoResult
    /\ pathStage = "off"

CfgOff ==
    /\ procEnv = EmptyEnv
    /\ validatedEnvCache = StartupCache
    /\ validatedEnvCacheKey = StartupCacheKey

ExeOff ==
    /\ explicitInput = Undefined
    /\ exeResult = NoResult
    /\ exeStage = "off"

SanOff ==
    /\ safeEnvResult = NoResult
    /\ envStage = "off"

ArgvOff ==
    /\ argvCall = <<>>
    /\ finalArgv = NoResult
    /\ argvStage = "off"

ToolOff ==
    /\ toolCall = <<>>
    /\ toolReturn = NoResult
    /\ toolSpawns = <<>>
    /\ toolStage = "off"

\* the decoder's variables as the promise executor initialises them
DecoderFresh ==
    /\ partialLine = <<>>
    /\ accumulatedText = <<>>
    /\ toolCount = 0
    /\ progressCalls = <<>>
    /\ uncaught = FALSE

StreamOff == onProgress = "none" /\ DecoderFresh

\* the state of an invocation before anything of it has run
SupFresh ==
    /\ callArgs = <<>>
    /\ progressLogFile = <<>>
    /\ written = <<>>
    /\ rejection = <<>>
    /\ spawnCalls = <<>>
    /\ resolveCalls = <<>>
    /\ settled = FALSE
    /\ out = <<>>
    /\ err = <<>>
    /\ idleTimer = "null"
    /\ killedByIdle = FALSE
    /\ mainTimer = "unset"
    /\ idleMs = 0
    /\ timeoutMs = 0
    /\ child = "none"
    /\ exitCode = <<>>
    /\ errorEmitted = FALSE
    /\ kills = {}
    /\ signalState = "none"
    /\ abortListener = FALSE

SupOff == phase = "off" /\ SupFresh

-----------------------------------------------------------------------------
(* Specification SpecPath: the validators applied to every bounded input,   *)
(* and applied once more to the path they returned.                        *)

PathAlphabet == {"/", ".", "r", "x", " "}
PathInputs == Strs(PathAlphabet, MaxPathLen)

InitPath ==
    /\ ToolOff
    /\ pathInput \in PathInputs
    /\ wdResult = NoResult
    /\ fpResult = NoResult
    /\ wdAgain = NoResult
    /\ fpAgain = NoResult
    /\ pathStage = "input"
    /\ CfgOff
    /\ ExeOff
    /\ SanOff
    /\ SupOff
    /\ ArgvOff
    /\ StreamOff

ValidatePath ==
    /\ pathStage = "input"
    /\ wdResult' = validateWorkingDirectory(pathInput)
    /\ fpResult' = validateFilePath(pathInput)
    /\ pathStage' = "validated"
    /\ UNCHANGED <<pathInput, wdAgain, fpAgain, cfgVars, exeVars, sanVars, argvVars, toolVars, streamVars, supVars>>

RevalidatePath ==
    /\ pathStage = "validated"
    /\ wdAgain' = IF wdResult.ok THEN validateWorkingDirectory(wdResult.value) ELSE NoResult
    /\ fpAgain' = IF fpResult.ok THEN validateFilePath(fpResult.value) ELSE NoResult
    /\ pathStage' = "revalidated"
    /\ UNCHANGED <<pathInput, wdResult, fpResult, cfgVars, exeVars, sanVars, argvVars, toolVars, streamVars, supVars>>

NextPath == ValidatePath \/ RevalidatePath

SpecPath == InitPath /\ [][NextPath]_vars

-----------------------------------------------------------------------------
(* Specification SpecExe: validateExecutablePath applied to every bounded   *)
(* explicit argument under every bounded raw CURSOR_AGENT_PATH.            *)

ExeAlphabet == {"/", ".", "a", " "}
ExeStrings == Strs(ExeAlphabet, MaxExeLen)

ExplicitInputs ==
    ExeStrings \cup {Undefined, Sentinel, <<" ">> \o Sentinel \o <<" ">>, Sentinel \o <<"a">>}

\* the environment in which only CURSOR_AGENT_PATH may be set
EnvWithPath(raw) ==
    IF raw = Undefined THEN EmptyEnv ELSE [k \in {K_CURSOR_AGENT_PATH} |-> raw]

InitExe ==
    /\ ToolOff
    /\ \E raw \in ExeStrings \cup {Undefined} : procEnv = EnvWithPath(raw)
    /\ validatedEnvCache = StartupCache
    /\ validatedEnvCacheKey = StartupCacheKey
    /\ explicitInput \in ExplicitInputs
    /\ exeResult = NoResult
    /\ exeStage = "input"
    /\ PathOff
    /\ SanOff
    /\ SupOff
    /\ ArgvOff
    /\ StreamOff

ValidateExe ==
    /\ exeStage = "input"
    /\ LET got == getValidatedEnv(procEnv, validatedEnvCache, validatedEnvCacheKey)
       IN  /\ exeResult' = validateExecutablePath(explicitInput, got)
           /\ validatedEnvCache' = got.cache
           /\ validatedEnvCacheKey' = got.key
    /\ exeStage' = "validated"
    /\ UNCHANGED <<procEnv, explicitInput, pathVars, sanVars, argvVars, toolVars, streamVars, supVars>>

NextExe == ValidateExe

SpecExe == InitExe /\ [][NextExe]_vars

-----------------------------------------------------------------------------
(* Specification SpecEnv: getSafeEnvironment applied to every ambient       *)
(* environment that sets at most MaxEnvVars of the candidate variables.    *)

\* names that are on no allow-list and carry none of the allowed prefixes
UnlistedKeys ==
    {<<"SECRET", "_", "KEY">>,
     <<"NPM", "_", "TOKEN">>,
     <<"MY", "_", "CURSOR", "_", "AGENT", "_", "TOKEN">>,
     <<"X", "_", "LC", "_", "ALL">>,
     <<"LC">>,
     <<"CURSOR", "_", "AGENT">>}

\* names the scan lets through that are not recognized configuration variables
ListedKeys ==
    {<<"PATH">>, <<"HOME">>, <<"USER", "NAME">>,
     <<"LC", "_", "ALL">>,
     <<"NPM", "_", "CONFIG", "_", "TOKEN">>,
     <<"CURSOR", "_", "AGENT", "_", "SECRET">>}

CandidateKeys == RecognizedKeys \cup ListedKeys \cup UnlistedKeys

\* the raw values a candidate variable takes
ValuesOf(k) ==
    CASE k = K_EXECUTING_CLIENT -> {<<"c", "u", "r", "s", "o", "r">>, <<"x">>}
      [] k = K_CURSOR_AGENT_PATH -> {<<"/", "a", "/", ".", "/", "b">>, <<".", ".">>}
      [] k \in {K_DEBUG_CURSOR_MCP, K_CURSOR_AGENT_ECHO_PROMPT, K_CURSOR_AGENT_FORCE}
            -> {<<"O", "n", " ">>, <<"0">>}
      [] k = K_CURSOR_AGENT_MODEL -> {<<" ", "m">>, <<" ">>}
      [] k \in {K_CURSOR_AGENT_IDLE_EXIT_MS, K_CURSOR_AGENT_TIMEOUT_MS}
            -> {<<"0", "7", "x">>, <<"-", "1">>, <<"x">>}
      [] OTHER -> {<<"v">>}

\* the subsets of S with at most n elements
RECURSIVE SubsetsUpTo(_, _)
SubsetsUpTo(S, n) ==
    IF n = 0 THEN {{}}
    ELSE LET smaller == SubsetsUpTo(S, n - 1)
         IN  smaller \cup {D \cup {x} : D \in smaller, x \in S}

\* the environments that set exactly the variables of D
RECURSIVE EnvsOver(_)
EnvsOver(D) ==
    IF D = {} THEN {EmptyEnv}
    ELSE LET k == CHOOSE x \in D : TRUE
         IN  {(k :> v) @@ e : e \in EnvsOver(D \ {k}), v \in ValuesOf(k)}

AmbientEnvs == UNION {EnvsOver(D) : D \in SubsetsUpTo(CandidateKeys, MaxEnvVars)}

InitEnv ==
    /\ ToolOff
    /\ procEnv \in AmbientEnvs
    /\ validatedEnvCache = StartupCache
    /\ validatedEnvCacheKey = StartupCacheKey
    /\ safeEnvResult = NoResult
    /\ envStage = "input"
    /\ PathOff
    /\ ExeOff
    /\ SupOff
    /\ ArgvOff
    /\ StreamOff

BuildSafeEnv ==
    /\ envStage = "input"
    /\ LET got == getValidatedEnv(procEnv, validatedEnvCache, validatedEnvCacheKey)
       IN  /\ safeEnvResult' = getSafeEnvironment(procEnv, got)
           /\ validatedEnvCache' = got.cache
           /\ validatedEnvCacheKey' = got.key
    /\ envStage' = "built"
    /\ UNCHANGED <<procEnv, pathVars, exeVars, argvVars, toolVars, streamVars, supVars>>

NextEnv == BuildSafeEnv

SpecEnv == InitEnv /\ [][NextEnv]_vars

-----------------------------------------------------------------------------
(* Argument vector composition: invokeCursorAgent and runCursorAgent *)

\* argument tokens; a token is a sequence of pieces that are never split
T_m == <<"-", "m">>
T_model == <<"-", "-", "model">>
T_mEq == <<"-", "m", "=">>
T_modelEq == <<"-", "-", "model", "=">>
T_f == <<"-", "f">>
T_force == <<"-", "-", "force">>
T_print == <<"-", "-", "print">>
T_outputFormat == <<"-", "-", "output-format">>
T_streamPartialOutput == <<"-", "-", "stream-partial-output">>
T_streamJson == <<"stream-json">>

\* a === '-m' || a === '--model' || /^(?:-m=|--model=)/.test(String(a))
IsModelFlag(a) ==
    a = T_m \/ a = T_model \/ StartsWith(a, T_mEq) \/ StartsWith(a, T_modelEq)

\* a === '-f' || a === '--force'
IsForceFlag(a) == a = T_f \/ a = T_force

\* a detection that knows the two space-joined forms only
hasModelFlag_Exact(userArgs) ==
    \E i \in 1..Len(userArgs) : userArgs[i] = T_m \/ userArgs[i] = T_model

hasModelFlag(userArgs) == \E i \in 1..Len(userArgs) : IsModelFlag(userArgs[i])

hasForceFlag(userArgs) == \E i \in 1..Len(userArgs) : IsForceFlag(userArgs[i])

\* an effective model that is the environment's whenever it has one
effectiveModel_EnvFirst(model, envModel) ==
    IF envModel # Undefined THEN envModel
    ELSE IF model # Undefined /\ Trim(model) # <<>> THEN Trim(model)
    ELSE Undefined

\* model?.trim?.() || envModel
effectiveModel(model, envModel) ==
    IF model # Undefined /\ Trim(model) # <<>> THEN Trim(model) ELSE envModel

\* typeof force === 'boolean' ? force : envForce, force being <<>> when absent
effectiveForce(force, envForce) == IF force # <<>> THEN force[1] ELSE envForce

\* the last argument is taken for the prompt: it is a non-empty string that
\* does not start with '-'
IsPromptArg(userArgs) ==
    /\ Len(userArgs) > 0
    /\ userArgs[Len(userArgs)] # <<>>
    /\ ~StartsWith(userArgs[Len(userArgs)], <<"-">>)

\* an argv composition that appends the injected flags to the whole raw
\* vector, the prompt included
composeArgv_FlagsLast(userArgs, output_format, model, force, print, hasProgress, env) ==
    LET useStreamJson == hasProgress
        finalOutputFormat == IF useStreamJson THEN T_streamJson ELSE output_format
    IN  (IF print THEN <<T_print, T_outputFormat, finalOutputFormat>> ELSE <<>>)
        \o (IF useStreamJson /\ print THEN <<T_streamPartialOutput>> ELSE <<>>)
        \o userArgs
        \o (IF hasForceFlag(userArgs) \/ ~effectiveForce(force, env.CURSOR_AGENT_FORCE)
               THEN <<>> ELSE <<T_f>>)
        \o (IF hasModelFlag(userArgs)
                  \/ Falsy(effectiveModel(model, env.CURSOR_AGENT_MODEL))
               THEN <<>> ELSE <<T_model, effectiveModel(model, env.CURSOR_AGENT_MODEL)>>)

\* finalArgv of invokeCursorAgent, env being what getValidatedEnv() returned
composeArgv(userArgs, output_format, model, force, print, hasProgress, env) ==
    LET promptArg == IF IsPromptArg(userArgs) THEN <<userArgs[Len(userArgs)]>> ELSE <<>>
        argsWithoutPrompt == IF IsPromptArg(userArgs)
                                THEN SubSeq(userArgs, 1, Len(userArgs) - 1)
                             ELSE userArgs
        useStreamJson == hasProgress
        finalOutputFormat == IF useStreamJson THEN T_streamJson ELSE output_format
    IN  (IF print THEN <<T_print, T_outputFormat, finalOutputFormat>> ELSE <<>>)
        \o (IF useStreamJson /\ print THEN <<T_streamPartialOutput>> ELSE <<>>)
        \o argsWithoutPrompt
        \o (IF hasForceFlag(userArgs) \/ ~effectiveForce(force, env.CURSOR_AGENT_FORCE)
               THEN <<>> ELSE <<T_f>>)
        \o (IF hasModelFlag(userArgs)
                  \/ Falsy(effectiveModel(model, env.CURSOR_AGENT_MODEL))
               THEN <<>> ELSE <<T_model, effectiveModel(model, env.CURSOR_AGENT_MODEL)>>)
        \o promptArg

\* argv of runCursorAgent: [...(extra_args ?? []), String(prompt)]
runArgv(extra_args, prompt) ==
    (IF extra_args = Undefined THEN <<>> ELSE extra_args) \o <<prompt>>

\* the raw argument tokens of the calls
ArgTokens ==
    {T_m, T_model, T_mEq \o <<"x">>, T_modelEq \o <<"x">>, T_f, T_force,
     <<"custom-model">>, <<"prompt text">>}

\* the prompts handed to runCursorAgent
Prompts == {<<"prompt text">>, <<"-", "x">>, T_f, <<>>}

\* the model and force options of the calls; force is <<>> when absent
ModelArgs == {Undefined, <<" ">>, <<" ", "gpt-y">>}
ForceArgs == {<<>>, <<TRUE>>, <<FALSE>>}

\* print and onProgress as the callers of invokeCursorAgent combine them
PrintProgress == {<<TRUE, FALSE>>, <<TRUE, TRUE>>, <<FALSE, FALSE>>}

\* the configurations the argv is composed under
ArgvEnvs ==
    {EmptyEnv,
     K_CURSOR_AGENT_MODEL :> <<"gpt-x">>,
     K_CURSOR_AGENT_FORCE :> <<"1">>,
     (K_CURSOR_AGENT_MODEL :> <<"gpt-x">>) @@ (K_CURSOR_AGENT_FORCE :> <<"1">>)}

InitArgv ==
    /\ ToolOff
    /\ procEnv \in ArgvEnvs
    /\ validatedEnvCache = StartupCache
    /\ validatedEnvCacheKey = StartupCacheKey
    /\ argvCall = <<>>
    /\ finalArgv = NoResult
    /\ argvStage = "input"
    /\ PathOff
    /\ ExeOff
    /\ SanOff
    /\ SupOff
    /\ StreamOff

\* invokeCursorAgent({ argv, model, force, print, onProgress }): the argv it
\* hands to spawn
InvokeArgv ==
    /\ argvStage = "input"
    /\ \E argv \in Strs(ArgTokens, MaxArgv), model \in ModelArgs, force \in ForceArgs,
          pp \in PrintProgress :
          \E got \in {getValidatedEnv(procEnv, validatedEnvCache, validatedEnvCacheKey)} :
              /\ argvCall' = <<[fn |-> "invokeCursorAgent", argv |-> argv, prompt |-> <<>>,
                                model |-> model, force |-> force,
                                print |-> pp[1], onProgress |-> pp[2],
                                toolPrint |-> <<>>]>>
              /\ finalArgv' = IF ~got.ok THEN Throw(got.error)
                              ELSE Ok(composeArgv(argv, <<"text">>, model, force,
                                                  pp[1], pp[2], got.value))
              /\ validatedEnvCache' = got.cache
              /\ validatedEnvCacheKey' = got.key
    /\ argvStage' = "composed"
    /\ UNCHANGED <<procEnv, pathVars, exeVars, sanVars, supVars, streamVars, toolVars>>

\* runCursorAgent({ prompt, extra_args, model, force }, onProgress): the argv
\* its call of invokeCursorAgent hands to spawn
RunArgv ==
    /\ argvStage = "input"
    /\ \E extra_args \in Strs(ArgTokens, MaxArgv - 1) \cup {Undefined}, prompt \in Prompts,
          model \in ModelArgs, force \in ForceArgs, hasProgress \in BOOLEAN :
          \E got \in {getValidatedEnv(procEnv, validatedEnvCache, validatedEnvCacheKey)} :
              /\ argvCall' = <<[fn |-> "runCursorAgent", argv |-> runArgv(extra_args, prompt),
                                prompt |-> <<prompt>>, model |-> model, force |-> force,
                                print |-> TRUE, onProgress |-> hasProgress,
                                toolPrint |-> <<>>]>>
              /\ finalArgv' = IF ~got.ok THEN Throw(got.error)
                              ELSE Ok(composeArgv(runArgv(extra_args, prompt), <<"text">>,
                                                  model, force, TRUE, hasProgress, got.value))
              /\ validatedEnvCache' = got.cache
              /\ validatedEnvCacheKey' = got.key
    /\ argvStage' = "composed"
    /\ UNCHANGED <<procEnv, pathVars, exeVars, sanVars, supVars, streamVars, toolVars>>

\* the print argument of a cursor_agent_raw call, <<>> when absent
PrintArgs == {<<>>, <<TRUE>>, <<FALSE>>}

\* the cursor_agent_raw tool: its handler takes argv, output_format, cwd,
\* executable, model and force from the arguments and calls invokeCursorAgent
\* with print: false
RawTool ==
    /\ argvStage = "input"
    /\ \E argv \in Strs(ArgTokens, MaxArgv) \ {<<>>}, model \in ModelArgs,
          force \in ForceArgs, print \in PrintArgs, hasProgress \in BOOLEAN :
          \E got \in {getValidatedEnv(procEnv, validatedEnvCache, validatedEnvCacheKey)} :
              /\ argvCall' = <<[fn |-> "cursor_agent_raw", argv |-> argv, prompt |-> <<>>,
                                model |-> model, force |-> force,
                                print |-> FALSE, onProgress |-> hasProgress,
                                toolPrint |-> print]>>
              /\ finalArgv' = IF ~got.ok THEN Throw(got.error)
                              ELSE Ok(composeArgv(argv, <<"text">>, model, force,
                                                  FALSE, hasProgress, got.value))
              /\ validatedEnvCache' = got.cache
              /\ validatedEnvCacheKey' = got.key
    /\ argvStage' = "composed"
    /\ UNCHANGED <<procEnv, pathVars, exeVars, sanVars, supVars, streamVars, toolVars>>

NextArgv == InvokeArgv \/ RunArgv \/ RawTool

SpecArgv == InitArgv /\ [][NextArgv]_vars

-----------------------------------------------------------------------------
(* Stream decoder: handleStreamEvent and the stdout handler *)

\* A line of the child's stream-json output is a sequence of pieces. The
\* pieces below stand for texts that JSON.parse accepts, alone or, for "{a"
\* and "b}", only when joined; every other line is a SyntaxError.
NoEvent == [type |-> "", subtype |-> "", text |-> <<>>, tool |-> "", path |-> Undefined,
            result |-> "", lines |-> 0, size |-> 0, duration |-> 0, model |-> Undefined,
            call |-> 0]

\* the values JSON.parse gives for the texts it accepts
ParsedValues ==
    (<<"{init}">> :> [NoEvent EXCEPT !.type = "system", !.subtype = "init",
                                     !.model = <<"gpt-x">>])
    @@ (<<"{a", "b}">> :> [NoEvent EXCEPT !.type = "assistant", !.text = <<"a", "b">>])
    @@ (<<"{c}">> :> [NoEvent EXCEPT !.type = "assistant", !.text = <<"c">>])
    @@ (<<"{e}">> :> [NoEvent EXCEPT !.type = "assistant"])
    @@ (<<"{t}">> :> [NoEvent EXCEPT !.type = "tool_call", !.subtype = "started",
                                     !.tool = "other"])
    @@ (<<"{tw}">> :> [NoEvent EXCEPT !.type = "tool_call", !.subtype = "started",
                                      !.tool = "write", !.path = <<"p">>])
    @@ (<<"{tr}">> :> [NoEvent EXCEPT !.type = "tool_call", !.subtype = "started",
                                      !.tool = "read"])
    @@ (<<"{dw}">> :> [NoEvent EXCEPT !.type = "tool_call", !.subtype = "completed",
                                      !.tool = "write", !.result = "success",
                                      !.lines = 3, !.size = 9])
    @@ (<<"{dr}">> :> [NoEvent EXCEPT !.type = "tool_call", !.subtype = "completed",
                                      !.tool = "read", !.result = "success", !.lines = 4])
    @@ (<<"{dx}">> :> [NoEvent EXCEPT !.type = "tool_call", !.subtype = "completed",
                                      !.tool = "write", !.result = "error"])
    @@ (<<"{d}">> :> [NoEvent EXCEPT !.type = "tool_call", !.subtype = "completed",
                                     !.tool = "other"])
    @@ (<<"{t1}">> :> [NoEvent EXCEPT !.type = "tool_call", !.subtype = "started",
                                      !.tool = "write", !.path = <<"p">>, !.call = 1])
    @@ (<<"{t2}">> :> [NoEvent EXCEPT !.type = "tool_call", !.subtype = "started",
                                      !.tool = "other", !.call = 2])
    @@ (<<"{d1}">> :> [NoEvent EXCEPT !.type = "tool_call", !.subtype = "completed",
                                      !.tool = "write", !.result = "success",
                                      !.lines = 3, !.size = 9, !.call = 1])
    @@ (<<"{d2}">> :> [NoEvent EXCEPT !.type = "tool_call", !.subtype = "completed",
                                      !.tool = "other", !.call = 2])
    @@ (<<"{", "U+00E9", "}">> :> [NoEvent EXCEPT !.type = "assistant", !.text = <<"U+00E9">>])
    @@ (<<"{", "U+FFFD", "U+FFFD", "}">> :>
            [NoEvent EXCEPT !.type = "assistant", !.text = <<"U+FFFD", "U+FFFD">>])
    @@ (<<"{res}">> :> [NoEvent EXCEPT !.type = "result", !.duration = 5])
    @@ (<<"{u}">> :> [NoEvent EXCEPT !.type = "unknown"])
    @@ (<<"7">> :> [NoEvent EXCEPT !.type = "not an object"])

\* JSON.parse(text): the value, or the SyntaxError thrown
JSONparse(text) ==
    IF text \in DOMAIN ParsedValues THEN Ok(ParsedValues[text]) ELSE Throw("SyntaxError")

\* the argument of an onProgress call; total is <<>> when absent
Progress(progress, total, message) ==
    [progress |-> progress, total |-> total, message |-> message]

\* x || 'unknown'
OrUnknown(x) == IF Falsy(x) THEN <<"unknown">> ELSE x

\* the body of the switch in handleStreamEvent (the check mark that begins the
\* texts of completed tool calls is left out): the decoder's counters after
\* the event and the onProgress calls made for it; st holds accumulatedText,
\* toolCount and the calls made so far
SwitchOnType(event, st) ==
    LET text == st.accumulatedText \o event.text
        count == st.toolCount + 1
        call(progress, total, message) ==
            [st EXCEPT !.calls = Append(st.calls, Progress(progress, total, message))]
    IN  CASE event.type = "system" /\ event.subtype = "init" ->
                call(0, <<>>, <<"Initializing cursor-agent (model: ">>
                                  \o OrUnknown(event.model) \o <<")...">>)
          [] event.type = "assistant" /\ event.text # <<>> ->
                [st EXCEPT !.accumulatedText = text,
                           !.calls = Append(st.calls,
                                Progress(Len(text), <<>>,
                                         <<"Generating response... (">> \o String(Len(text))
                                             \o <<" characters)">>))]
          [] event.type = "tool_call" /\ event.subtype = "started" ->
                [st EXCEPT !.toolCount = count,
                           !.calls = Append(st.calls,
                                Progress(count, <<>>,
                                    IF event.tool = "write"
                                       THEN <<"Writing file: ">> \o OrUnknown(event.path)
                                    ELSE IF event.tool = "read"
                                       THEN <<"Reading file: ">> \o OrUnknown(event.path)
                                    ELSE <<"Executing tool #">> \o String(count) \o <<"...">>))]
          [] event.type = "tool_call" /\ event.subtype = "completed"
                /\ event.tool = "write" /\ event.result = "success" ->
                call(st.toolCount, <<>>,
                     <<"Created ">> \o String(event.lines) \o <<" lines (">>
                         \o String(event.size) \o <<" bytes)">>)
          [] event.type = "tool_call" /\ event.subtype = "completed"
                /\ event.tool = "read" /\ event.result = "success" ->
                call(st.toolCount, <<>>,
                     <<"Read ">> \o String(event.lines) \o <<" lines">>)
          [] event.type = "tool_call" /\ event.subtype = "completed"
                /\ event.tool \in {"write", "read"} /\ event.result # "" ->
                call(st.toolCount, <<>>,
                     <<"Tool #">> \o String(st.toolCount) \o <<" completed">>)
          [] event.type = "result" ->
                call(100, <<100>>,
                     <<"Completed in ">> \o String(event.duration) \o <<"ms">>)
          [] OTHER -> st

\* handleStreamEvent: nothing without a consumer or for a value that is not
\* an object; what the consumer throws is caught
handleStreamEvent(event, st, consumer) ==
    IF consumer = "none" \/ event.type = "not an object" THEN st
    ELSE [SwitchOnType(event, st) EXCEPT !.thrown = st.thrown]

\* a loop body without the try: the SyntaxError of a line that does not
\* parse leaves the stdout handler
DecodeLine_NoTry(line, st, consumer) ==
    LET trimmed == Trim(line)
        parsed == JSONparse(trimmed)
    IN  IF trimmed = <<>> THEN st
        ELSE IF ~parsed.ok THEN [st EXCEPT !.thrown = TRUE]
        ELSE handleStreamEvent(parsed.value, st, consumer)

\* one line of the loop: trim, skip when empty, parse and handle inside a try
\* whose catch drops the line
DecodeLine(line, st, consumer) ==
    LET trimmed == Trim(line)
        parsed == JSONparse(trimmed)
    IN  IF trimmed = <<>> THEN st
        ELSE IF ~parsed.ok THEN st
        ELSE [handleStreamEvent(parsed.value, st, consumer) EXCEPT !.thrown = st.thrown]

\* for (const line of lines) { ... }
RECURSIVE DecodeLines(_, _, _)
DecodeLines(lines, st, consumer) ==
    IF lines = <<>> THEN st
    ELSE DecodeLines(Tail(lines), DecodeLine(Head(lines), st, consumer), consumer)

\* a stdout handler that splits the chunk alone, without the carried-over line
DecodeChunk_NoCarry(chunk, st, consumer) ==
    IF consumer = "none" THEN st
    ELSE LET lines == Split(chunk, "\n")
         IN  DecodeLines(SubSeq(lines, 1, Len(lines) - 1),
                         [st EXCEPT !.partialLine = lines[Len(lines)]], consumer)

\* the decoding part of the stdout handler: lines = (partialLine + chunk)
\* .split('\n'), the last one is kept as partialLine, the others are decoded
DecodeChunk(chunk, st, consumer) ==
    IF consumer = "none" THEN st
    ELSE LET lines == Split(st.partialLine \o chunk, "\n")
         IN  DecodeLines(SubSeq(lines, 1, Len(lines) - 1),
                         [st EXCEPT !.partialLine = lines[Len(lines)]], consumer)

\* a close handler that discards what is left in partialLine
DecodeRest_Discard(st, consumer) == st

\* the close handler's decoding of what is left in partialLine
DecodeRest(st, consumer) ==
    IF consumer = "none" \/ Trim(st.partialLine) = <<>> THEN st
    ELSE LET parsed == JSONparse(Trim(st.partialLine))
         IN  IF ~parsed.ok THEN st
             ELSE [handleStreamEvent(parsed.value, st, consumer) EXCEPT !.thrown = st.thrown]

-----------------------------------------------------------------------------
(* Result assembly *)

\* the fixed "(no output)" marker; unlike captured output it is not made of
\* single characters
NoOutputMarker == <<"(no output)">>

\* a || b for strings
OrElse(a, b) == IF a # <<>> THEN a ELSE b

\* The text of a result is kept as the template it was built from (kind) and
\* the values interpolated into it: n for a number (<<>> when it is null),
\* body, cmd and envPath for strings.
Result(isError, kind, n, body, cmd, envPath) ==
    [isError |-> isError, kind |-> kind, n |-> n, body |-> body,
     cmd |-> cmd, envPath |-> envPath, progressLogFile |-> <<>>, logNote |-> <<>>]

\* { content: [{ type: 'text', text: out || '(no output)' }] }
resultSuccess(o) == Result(FALSE, "output", <<>>, OrElse(o, NoOutputMarker), <<>>, <<>>)

\* the exit text preferring the standard output to the error stream
resultExit_StdoutFirst(code, e, o) ==
    Result(TRUE, "exited with code", code, OrElse(o, OrElse(e, NoOutputMarker)), <<>>, <<>>)

\* `cursor-agent exited with code ${code}\n${err || out || '(no output)'}`, isError
resultExit(code, e, o) ==
    Result(TRUE, "exited with code", code, OrElse(e, OrElse(o, NoOutputMarker)), <<>>, <<>>)

\* the timeout text naming the default instead of the configured timeout
resultTimeout_Default(ms) == Result(TRUE, "timed out after", <<30000>>, <<>>, <<>>, <<>>)

\* `cursor-agent timed out after ${timeoutMs}ms`, isError
resultTimeout(ms) == Result(TRUE, "timed out after", <<ms>>, <<>>, <<>>, <<>>)

\* `Failed to start "${cmd}": ...` with the CURSOR_AGENT_PATH line when it is set, isError
resultSpawnError(cmd, safeEnv) ==
    Result(TRUE, "failed to start", <<>>, <<>>, cmd,
           IF K_CURSOR_AGENT_PATH \in DOMAIN safeEnv /\ safeEnv[K_CURSOR_AGENT_PATH] # <<>>
              THEN safeEnv[K_CURSOR_AGENT_PATH] ELSE <<>>)

\* a Cancelled result whose text leaves the cancellation reason out
resultCancelled_NoReason(reason) == Result(TRUE, "cancelled", <<>>, <<>>, <<>>, <<>>)

\* the Cancelled result: isError, the text carrying the cancellation reason
resultCancelled(reason) == Result(TRUE, "cancelled", <<>>, reason, <<>>, <<>>)

\* the separator between a result's text and the activity log's path
ActivityLogSeparator == "\n\nSub agent activity log: "

\* the path of the activity log, a cursor-agent-progress- file of the
\* system's temporary directory
ActivityLogPath == "/tmp/cursor-agent-progress-1.log"

\* the outcomes of establishing the activity log: a failed write leaves none
ActivityLogs == {<<>>, <<ActivityLogPath>>}

\* the log annotation put on successful results only
withActivityLog_SuccessOnly(result, logFile) ==
    IF logFile = <<>> \/ result.isError THEN result
    ELSE [result EXCEPT !.progressLogFile = logFile,
                        !.logNote = <<ActivityLogSeparator>> \o logFile]

\* the result as it is returned: with an activity log, progressLogFile is set
\* and the separator and the path are appended to the text (logNote); with
\* none the result is returned as it is
withActivityLog(result, logFile) ==
    IF logFile = <<>> THEN result
    ELSE [result EXCEPT !.progressLogFile = logFile,
                        !.logNote = <<ActivityLogSeparator>> \o logFile]

-----------------------------------------------------------------------------
(* Process supervisor: invokeCursorAgent *)

defaultTimeout == 30000

\* the exit status of a child whose spawn failed (-ENOENT)
SpawnFailureCode == 0 - 2

\* a cleanup that cancels no timer
clearTimeout_Noop(timer) == timer

\* clearTimeout(timer)
clearTimeout(timer) == IF timer = "pending" THEN "cleared" ELSE timer

\* a cleanup that leaves the listener on the signal
removeEventListener_Leak(l) == l

\* cleanup: signal.removeEventListener('abort', listener)
removeEventListener(l) == FALSE

\* the cancellation reason a caller supplies
AbortReason == <<"r", "e", "a", "s", "o", "n">>

\* a handler that never takes its early return
AlreadySettled_Never(s) == FALSE

\* if (settled) return;
AlreadySettled(s) == s

\* the close handler counting only exit code 0 as success
CloseIsSuccess_ZeroOnly(code, byIdle, o) == code = <<0>>

\* code === 0 || (killedByIdle && out)
CloseIsSuccess(code, byIdle, o) == code = <<0>> \/ (byIdle /\ o # <<>>)

\* a scheduleIdleKill without the test of the threshold
scheduleIdleKill_Always(ms, timer) == "pending"

\* the idle timer after scheduleIdleKill()
scheduleIdleKill(ms, timer) == IF ms = 0 \/ ms <= 0 THEN timer ELSE "pending"

\* the configurations the server runs invocations under
SupEnvKeys == {K_CURSOR_AGENT_PATH, K_CURSOR_AGENT_IDLE_EXIT_MS, K_CURSOR_AGENT_TIMEOUT_MS}

SupValuesOf(k) ==
    CASE k = K_CURSOR_AGENT_PATH -> {<<"/", "a">>, <<".", ".">>}
      [] k = K_CURSOR_AGENT_IDLE_EXIT_MS -> {<<"0">>, <<"0", "5">>}
      [] k = K_CURSOR_AGENT_TIMEOUT_MS -> {<<"7">>, <<"0">>, <<"-", "1">>, <<"x">>}

RECURSIVE SupEnvsOver(_)
SupEnvsOver(D) ==
    IF D = {} THEN {EmptyEnv}
    ELSE LET k == CHOOSE x \in D : TRUE
         IN  {(k :> v) @@ e : e \in SupEnvsOver(D \ {k}), v \in SupValuesOf(k)}

SupEnvs == UNION {SupEnvsOver(D) : D \in SUBSET SupEnvKeys}

\* the executable and cwd arguments of the calls
ExecutableArgs == {Undefined, <<"/", "a">>, <<"/", "b">>}
CwdArgs == {Undefined, <<"r">>, <<".", ".", "/", "r", "x">>}

\* the exit codes of a child that ends by itself
ExitCodes == {0, 1}

InitSup ==
    /\ ToolOff
    /\ procEnv = EmptyEnv
    /\ validatedEnvCache = StartupCache
    /\ validatedEnvCacheKey = StartupCacheKey
    /\ phase = "idle"
    /\ SupFresh
    /\ PathOff
    /\ ExeOff
    /\ SanOff
    /\ ArgvOff
    /\ StreamOff

\* process.env is changed between the server's start and the call
SetEnv ==
    /\ phase = "idle"
    /\ \E e \in SupEnvs : e # procEnv /\ procEnv' = e
    /\ UNCHANGED <<validatedEnvCache, validatedEnvCacheKey, pathVars, exeVars, sanVars, argvVars, toolVars, streamVars, supVars>>

\* what the synchronous prologue of invokeCursorAgent computes; got1 and got2
\* are what the getValidatedEnv calls made by validateExecutablePath and by
\* getSafeEnvironment returned
Prologue(executable, cwd, got1, got2) ==
    LET cmd == validateExecutablePath(executable, got1)
        validatedCwd == validateWorkingDirectory(cwd)
        safeEnv == getSafeEnvironment(procEnv, got2)
    IN  [cmd |-> cmd, validatedCwd |-> validatedCwd, safeEnv |-> safeEnv,
         got |-> got2,
         error |-> IF ~cmd.ok THEN <<cmd.error>>
                   ELSE IF ~validatedCwd.ok THEN <<validatedCwd.error>>
                   ELSE IF ~safeEnv.ok THEN <<safeEnv.error>>
                   ELSE <<>>]

\* spawn handed the whole of process.env
SpawnCall_ProcessEnv(pro) ==
    [cmd |-> pro.cmd.value, cwd |-> pro.validatedCwd.value,
     env |-> procEnv, shell |-> FALSE]

\* spawn(cmd, finalArgv, { shell: false, cwd: validatedCwd, env: safeEnv })
SpawnCall(pro) ==
    [cmd |-> pro.cmd.value, cwd |-> pro.validatedCwd.value,
     env |-> pro.safeEnv.value, shell |-> FALSE]

\* invokeCursorAgent called with no cancellation signal, or with one that has
\* not been triggered: validation, then spawn, handlers and the main timer
Invoke ==
    /\ phase = "idle"
    /\ \E executable \in ExecutableArgs, cwd \in CwdArgs, sig \in {"none", "armed"},
          spawned \in {"running", "failing"}, logFile \in ActivityLogs :
          \E got1 \in {getValidatedEnv(procEnv, validatedEnvCache, validatedEnvCacheKey)} :
          \E got2 \in {getValidatedEnv(procEnv, got1.cache, got1.key)} :
          \E pro \in {Prologue(executable, cwd, got1, got2)} :
              /\ callArgs' = <<[executable |-> executable, cwd |-> cwd]>>
              /\ validatedEnvCache' = pro.got.cache
              /\ validatedEnvCacheKey' = pro.got.key
              /\ IF pro.error # <<>>
                    THEN /\ phase' = "rejected"
                         /\ rejection' = pro.error
                         /\ UNCHANGED <<progressLogFile, spawnCalls, resolveCalls, settled, out, err,
                                        idleTimer, killedByIdle, mainTimer, idleMs,
                                        timeoutMs, child, exitCode, errorEmitted, kills,
                                        signalState, abortListener>>
                 ELSE /\ phase' = "spawned"
                      /\ progressLogFile' = logFile
                      /\ spawnCalls' = Append(spawnCalls, SpawnCall(pro))
                      /\ child' = spawned
                      /\ idleMs' = IF pro.got.value.CURSOR_AGENT_IDLE_EXIT_MS # <<>>
                                      THEN pro.got.value.CURSOR_AGENT_IDLE_EXIT_MS[1] ELSE 0
                      /\ timeoutMs' = IF pro.got.value.CURSOR_AGENT_TIMEOUT_MS # <<>>
                                         THEN pro.got.value.CURSOR_AGENT_TIMEOUT_MS[1]
                                         ELSE defaultTimeout
                      /\ mainTimer' = "pending"
                      /\ signalState' = sig
                      /\ abortListener' = (sig = "armed")
                      /\ UNCHANGED <<rejection, resolveCalls, settled, out, err,
                                     idleTimer, killedByIdle, exitCode, errorEmitted, kills>>
    /\ UNCHANGED <<procEnv, pathVars, exeVars, sanVars, argvVars, toolVars, streamVars, written>>

\* invokeCursorAgent called with a cancellation signal that is already
\* triggered: validation, then the Cancelled result without spawning
InvokeAborted ==
    /\ phase = "idle"
    /\ \E executable \in ExecutableArgs, cwd \in CwdArgs, logFile \in ActivityLogs :
          \E got1 \in {getValidatedEnv(procEnv, validatedEnvCache, validatedEnvCacheKey)} :
          \E got2 \in {getValidatedEnv(procEnv, got1.cache, got1.key)} :
          \E pro \in {Prologue(executable, cwd, got1, got2)} :
              /\ callArgs' = <<[executable |-> executable, cwd |-> cwd]>>
              /\ validatedEnvCache' = pro.got.cache
              /\ validatedEnvCacheKey' = pro.got.key
              /\ IF pro.error # <<>>
                    THEN /\ phase' = "rejected"
                         /\ rejection' = pro.error
                         /\ UNCHANGED <<progressLogFile, resolveCalls, settled, signalState>>
                 ELSE /\ phase' = "unspawned"
                      /\ progressLogFile' = logFile
                      /\ signalState' = "aborted"
                      /\ settled' = TRUE
                      /\ resolveCalls' = Append(resolveCalls,
                                withActivityLog(resultCancelled(AbortReason), logFile))
                      /\ UNCHANGED rejection
    /\ UNCHANGED <<procEnv, pathVars, exeVars, sanVars, argvVars, toolVars, streamVars, written, spawnCalls, out, err, idleTimer,
                   killedByIdle, mainTimer, idleMs, timeoutMs, child, exitCode,
                   errorEmitted, kills, abortListener>>

\* the lead byte and the continuation byte of the two-byte character U+00E9,
\* and the replacement character an incomplete sequence is decoded to
ByteC3 == "0xC3"
ByteA9 == "0xA9"
Replacement == "U+FFFD"

\* d.toString(): the UTF-8 decoding of the bytes of one chunk by themselves;
\* a lead byte without its continuation byte and a continuation byte without
\* its lead byte each become the replacement character
RECURSIVE toString(_)
toString(d) ==
    IF d = <<>> THEN <<>>
    ELSE IF Head(d) = ByteC3
        THEN IF Len(d) >= 2 /\ d[2] = ByteA9
                THEN <<"U+00E9">> \o toString(SubSeq(d, 3, Len(d)))
             ELSE <<Replacement>> \o toString(Tail(d))
    ELSE IF Head(d) = ByteA9 THEN <<Replacement>> \o toString(Tail(d))
    ELSE <<Head(d)>> \o toString(Tail(d))

\* the decoder's variables as a record
DecoderState ==
    [partialLine |-> partialLine, accumulatedText |-> accumulatedText,
     toolCount |-> toolCount, calls |-> progressCalls, thrown |-> FALSE]

\* child.stdout.on('data') for the chunk d: accumulate, scheduleIdleKill(),
\* then decode the complete lines when a consumer is attached
StdoutHandler(d) ==
    /\ written' = written \o d
    /\ \E chunk \in {toString(d)} :
        /\ out' = out \o chunk
        /\ \E st \in {DecodeChunk(chunk, DecoderState, onProgress)} :
            /\ partialLine' = st.partialLine
            /\ accumulatedText' = st.accumulatedText
            /\ toolCount' = st.toolCount
            /\ progressCalls' = st.calls
            /\ uncaught' = (uncaught \/ st.thrown)
    /\ idleTimer' = scheduleIdleKill(idleMs, idleTimer)
    /\ UNCHANGED <<cfgVars, pathVars, exeVars, sanVars, argvVars, toolVars, onProgress, callArgs, progressLogFile, phase,
                   rejection, spawnCalls, resolveCalls, settled, err, killedByIdle,
                   mainTimer, idleMs, timeoutMs, child, exitCode, errorEmitted, kills,
                   signalState, abortListener>>

\* the child writes a chunk to stdout; a child that was never created writes
\* nothing
StdoutData ==
    /\ phase = "spawned"
    /\ child \in {"running", "exited"}
    /\ exitCode # <<SpawnFailureCode>>
    /\ Len(out) < MaxOut
    /\ StdoutHandler(<<"o">>)

\* the pieces the child's stdout is made of
StreamAlphabet == {"\n", " ", "{a", "b}", "{c}", "{e}", "{t}", "{u}"}

\* the child writes a chunk of stream-json output
StreamData ==
    /\ phase = "spawned"
    /\ child \in {"running", "exited"}
    /\ exitCode # <<SpawnFailureCode>>
    /\ \E d \in Strs(StreamAlphabet, MaxChunk) \ {<<>>} :
            /\ Len(out) + Len(d) <= MaxStream
            /\ StdoutHandler(d)

\* child.stderr.on('data')
StderrData ==
    /\ phase = "spawned"
    /\ child \in {"running", "exited"}
    /\ exitCode # <<SpawnFailureCode>>
    /\ Len(err) < MaxErr
    /\ err' = err \o <<"e">>
    /\ UNCHANGED <<cfgVars, pathVars, exeVars, sanVars, argvVars, toolVars, streamVars, callArgs, progressLogFile, written, phase, rejection, spawnCalls,
                   resolveCalls, settled, out, idleTimer, killedByIdle, mainTimer, idleMs,
                   timeoutMs, child, exitCode, errorEmitted, kills, signalState,
                   abortListener>>

\* the child ends by itself with an exit code
ChildExit ==
    /\ phase = "spawned"
    /\ child = "running"
    /\ child' = "exited"
    /\ \E code \in ExitCodes : exitCode' = <<code>>
    /\ UNCHANGED <<cfgVars, pathVars, exeVars, sanVars, argvVars, toolVars, streamVars, callArgs, progressLogFile, written, phase, rejection, spawnCalls,
                   resolveCalls, settled, out, err, idleTimer, killedByIdle, mainTimer,
                   idleMs, timeoutMs, errorEmitted, kills, signalState, abortListener>>

\* the child dies of a SIGKILL it was sent: its exit code is null
ChildKilled ==
    /\ phase = "spawned"
    /\ child = "running"
    /\ kills # {}
    /\ child' = "exited"
    /\ exitCode' = <<>>
    /\ UNCHANGED <<cfgVars, pathVars, exeVars, sanVars, argvVars, toolVars, streamVars, callArgs, progressLogFile, written, phase, rejection, spawnCalls,
                   resolveCalls, settled, out, err, idleTimer, killedByIdle, mainTimer,
                   idleMs, timeoutMs, errorEmitted, kills, signalState, abortListener>>

\* child.on('error'): a failed spawn, or an error of the running child
ChildError ==
    /\ phase = "spawned"
    /\ child \in {"failing", "running"}
    /\ ~errorEmitted
    /\ errorEmitted' = TRUE
    /\ child' = IF child = "failing" THEN "exited" ELSE child
    /\ exitCode' = IF child = "failing" THEN <<SpawnFailureCode>> ELSE exitCode
    /\ IF AlreadySettled(settled)
          THEN UNCHANGED <<cfgVars, settled, mainTimer, idleTimer, resolveCalls, abortListener>>
       ELSE LET errorEnv == getValidatedEnv(procEnv, validatedEnvCache, validatedEnvCacheKey)
                call == spawnCalls[Len(spawnCalls)]
            IN  /\ settled' = TRUE
                /\ mainTimer' = clearTimeout(mainTimer)
                /\ idleTimer' = clearTimeout(idleTimer)
                /\ abortListener' = removeEventListener(abortListener)
                /\ validatedEnvCache' = errorEnv.cache
                /\ validatedEnvCacheKey' = errorEnv.key
                /\ resolveCalls' = IF errorEnv.ok
                                      THEN Append(resolveCalls, withActivityLog(resultSpawnError(call.cmd, call.env), progressLogFile))
                                   ELSE resolveCalls
                /\ UNCHANGED procEnv
    /\ UNCHANGED <<pathVars, exeVars, sanVars, argvVars, toolVars, streamVars, callArgs, progressLogFile, written, phase, rejection, spawnCalls, out, err,
                   killedByIdle, idleMs, timeoutMs, kills, signalState>>

\* child.on('close')
ChildClose ==
    /\ phase = "spawned"
    /\ child = "exited"
    /\ child' = "closed"
    /\ IF AlreadySettled(settled)
          THEN UNCHANGED <<cfgVars, settled, mainTimer, idleTimer, resolveCalls, abortListener,
                           decVars>>
       ELSE \E closeEnv \in {getValidatedEnv(procEnv, validatedEnvCache, validatedEnvCacheKey)},
               st \in {DecodeRest(DecoderState, onProgress)} :
                /\ settled' = TRUE
                /\ mainTimer' = clearTimeout(mainTimer)
                /\ idleTimer' = clearTimeout(idleTimer)
                /\ abortListener' = removeEventListener(abortListener)
                /\ partialLine' = st.partialLine
                /\ accumulatedText' = st.accumulatedText
                /\ toolCount' = st.toolCount
                /\ progressCalls' = st.calls
                /\ uncaught' = (uncaught \/ st.thrown \/ ~closeEnv.ok)
                /\ validatedEnvCache' = closeEnv.cache
                /\ validatedEnvCacheKey' = closeEnv.key
                /\ resolveCalls' =
                        IF ~closeEnv.ok THEN resolveCalls
                        ELSE IF CloseIsSuccess(exitCode, killedByIdle, out)
                            THEN Append(resolveCalls, withActivityLog(resultSuccess(out), progressLogFile))
                        ELSE Append(resolveCalls, withActivityLog(resultExit(exitCode, err, out), progressLogFile))
                /\ UNCHANGED procEnv
    /\ UNCHANGED <<pathVars, exeVars, sanVars, argvVars, toolVars, onProgress, callArgs, progressLogFile, written, phase, rejection,
                   spawnCalls, out, err, killedByIdle, idleMs, timeoutMs, exitCode,
                   errorEmitted, kills, signalState>>

\* a main timer callback that kills the child and leaves resolving to close
MainTimerFire_KillOnly ==
    /\ phase = "spawned"
    /\ mainTimer = "pending"
    /\ mainTimer' = "fired"
    /\ kills' = kills \cup {"mainTimer"}
    /\ UNCHANGED <<cfgVars, pathVars, exeVars, sanVars, argvVars, toolVars, streamVars, callArgs, progressLogFile, written, phase, rejection,
                   spawnCalls, resolveCalls, settled, out, err, idleTimer, killedByIdle,
                   idleMs, timeoutMs, child, exitCode, errorEmitted, signalState,
                   abortListener>>

\* the callback of mainTimer
MainTimerFire ==
    /\ phase = "spawned"
    /\ mainTimer = "pending"
    /\ mainTimer' = "fired"
    /\ kills' = kills \cup {"mainTimer"}
    /\ IF AlreadySettled(settled)
          THEN UNCHANGED <<settled, idleTimer, resolveCalls, abortListener>>
       ELSE /\ settled' = TRUE
            /\ idleTimer' = clearTimeout(idleTimer)
            /\ abortListener' = removeEventListener(abortListener)
            /\ resolveCalls' = Append(resolveCalls, withActivityLog(resultTimeout(timeoutMs), progressLogFile))
    /\ UNCHANGED <<cfgVars, pathVars, exeVars, sanVars, argvVars, toolVars, streamVars, callArgs, progressLogFile, written, phase, rejection, spawnCalls,
                   out, err, killedByIdle, idleMs, timeoutMs, child, exitCode,
                   errorEmitted, signalState>>

\* the callback of idleTimer
IdleTimerFire ==
    /\ phase = "spawned"
    /\ idleTimer = "pending"
    /\ idleTimer' = "fired"
    /\ killedByIdle' = TRUE
    /\ kills' = kills \cup {"idleTimer"}
    /\ UNCHANGED <<cfgVars, pathVars, exeVars, sanVars, argvVars, toolVars, streamVars, callArgs, progressLogFile, written, phase, rejection, spawnCalls,
                   resolveCalls, settled, out, err, mainTimer, idleMs, timeoutMs, child,
                   exitCode, errorEmitted, signalState, abortListener>>

\* an abort listener that resolves as Cancelled and leaves the child running
Abort_NoKill ==
    /\ phase = "spawned"
    /\ signalState = "armed"
    /\ signalState' = "aborted"
    /\ IF ~abortListener \/ settled
          THEN UNCHANGED <<settled, mainTimer, idleTimer, resolveCalls, abortListener, kills>>
       ELSE /\ settled' = TRUE
            /\ mainTimer' = clearTimeout(mainTimer)
            /\ idleTimer' = clearTimeout(idleTimer)
            /\ abortListener' = removeEventListener(abortListener)
            /\ kills' = kills
            /\ resolveCalls' = Append(resolveCalls, withActivityLog(resultCancelled(AbortReason), progressLogFile))
    /\ UNCHANGED <<cfgVars, pathVars, exeVars, sanVars, argvVars, toolVars, streamVars, callArgs, progressLogFile, written, phase, rejection, spawnCalls,
                   out, err, killedByIdle, idleMs, timeoutMs, child, exitCode,
                   errorEmitted>>

\* the cancellation signal is triggered after the call; the invocation's
\* listener, if still registered, applies the Cancelled transition
Abort ==
    /\ phase = "spawned"
    /\ signalState = "armed"
    /\ signalState' = "aborted"
    /\ IF ~abortListener \/ settled
          THEN UNCHANGED <<settled, mainTimer, idleTimer, resolveCalls, abortListener, kills>>
       ELSE /\ settled' = TRUE
            /\ mainTimer' = clearTimeout(mainTimer)
            /\ idleTimer' = clearTimeout(idleTimer)
            /\ abortListener' = removeEventListener(abortListener)
            /\ kills' = kills \cup {"abort"}
            /\ resolveCalls' = Append(resolveCalls, withActivityLog(resultCancelled(AbortReason), progressLogFile))
    /\ UNCHANGED <<cfgVars, pathVars, exeVars, sanVars, argvVars, toolVars, streamVars, callArgs, progressLogFile, written, phase, rejection, spawnCalls,
                   out, err, killedByIdle, idleMs, timeoutMs, child, exitCode,
                   errorEmitted>>

Next ==
    \/ SetEnv
    \/ Invoke
    \/ InvokeAborted
    \/ StdoutData
    \/ StderrData
    \/ ChildExit
    \/ ChildKilled
    \/ ChildError
    \/ ChildClose
    \/ MainTimerFire
    \/ IdleTimerFire
    \/ Abort

Spec == InitSup /\ [][Next]_vars

\* the timers of Node's event loop fire: a pending hard-timeout timer is
\* eventually run
LiveSpec == Spec /\ WF_vars(MainTimerFire)

\* an invocation with the default configuration and arguments, right after
\* its child was spawned, with or without a progress consumer
InitStream ==
    /\ ToolOff
    /\ procEnv = EmptyEnv
    /\ validatedEnvCache = StartupCache
    /\ validatedEnvCacheKey = StartupCacheKey
    /\ callArgs = <<[executable |-> Undefined, cwd |-> Undefined]>>
    /\ progressLogFile = <<>>
    /\ written = <<>>
    /\ phase = "spawned"
    /\ rejection = <<>>
    /\ \E got \in {getValidatedEnv(EmptyEnv, StartupCache, StartupCacheKey)} :
            spawnCalls = <<SpawnCall(Prologue(Undefined, Undefined, got, got))>>
    /\ resolveCalls = <<>>
    /\ settled = FALSE
    /\ out = <<>>
    /\ err = <<>>
    /\ idleTimer = "null"
    /\ killedByIdle = FALSE
    /\ mainTimer = "pending"
    /\ idleMs = 0
    /\ timeoutMs = defaultTimeout
    /\ child = "running"
    /\ exitCode = <<>>
    /\ errorEmitted = FALSE
    /\ kills = {}
    /\ signalState = "none"
    /\ abortListener = FALSE
    /\ onProgress \in {"none", "ok", "throws"}
    /\ DecoderFresh
    /\ PathOff
    /\ ExeOff
    /\ SanOff
    /\ ArgvOff

NextStream ==
    \/ StreamData
    \/ ChildExit
    \/ ChildClose

SpecStream == InitStream /\ [][NextStream]_vars

\* the pieces of the output of a child that the main timer may end
TimedAlphabet == {"\n", " ", "{a", "b}", "{c}", "{u}"}

\* the child writes a chunk of one piece
StreamPiece ==
    /\ phase = "spawned"
    /\ child \in {"running", "exited"}
    /\ exitCode # <<SpawnFailureCode>>
    /\ \E p \in TimedAlphabet :
            /\ Len(out) + 1 <= MaxStream
            /\ StdoutHandler(<<p>>)

NextStreamTimed ==
    \/ StreamPiece
    \/ ChildExit
    \/ ChildKilled
    \/ ChildClose
    \/ MainTimerFire

SpecStreamTimed == InitStream /\ [][NextStreamTimed]_vars

\* the bytes of an assistant event whose text is the two-byte character
ByteAlphabet == {"\n", "{", "}", ByteC3, ByteA9}

\* the child writes a chunk of bytes
StreamBytes ==
    /\ phase = "spawned"
    /\ child \in {"running", "exited"}
    /\ exitCode # <<SpawnFailureCode>>
    /\ \E d \in Strs(ByteAlphabet, MaxChunk) \ {<<>>} :
            /\ Len(written) + Len(d) <= MaxStream
            /\ StdoutHandler(d)

NextBytes ==
    \/ StreamBytes
    \/ ChildExit
    \/ ChildClose

SpecBytes == InitStream /\ [][NextBytes]_vars

MaxLines == 4

\* the events of two tool calls, call 1 writing a file and call 2 of another
\* tool, and an assistant event
ToolCallPieces == {"{t1}", "{t2}", "{d1}", "{d2}", "{c}"}

\* the child writes one whole line, an event and its newline, as a chunk
StreamLine ==
    /\ phase = "spawned"
    /\ child \in {"running", "exited"}
    /\ exitCode # <<SpawnFailureCode>>
    /\ \E p \in ToolCallPieces :
            /\ Len(out) + 2 <= 2 * MaxLines
            /\ StdoutHandler(<<p, "\n">>)

NextToolCalls ==
    \/ StreamLine
    \/ ChildExit
    \/ ChildClose

SpecToolCalls == InitStream /\ [][NextToolCalls]_vars

-----------------------------------------------------------------------------
(* runCursorAgent and the tool handlers built on it *)

MaxPaths == 2

\* { type: 'text', text }
TextItem(text) == [type |-> "text", text |-> text]

\* a result of invokeCursorAgent as its caller holds it: the content with its
\* one text item, and isError, which a success does not have (<<>>)
CallResult(r) ==
    [content |-> <<TextItem(<<r.kind, r.n, r.body>>)>>,
     isError |-> IF r.isError THEN <<TRUE>> ELSE <<>>]

\* what awaiting invokeCursorAgent yields: the result of a spawned child, or
\* the error of a failed validation, thrown before any spawn
InvokeOutcomes ==
    {Ok(CallResult(resultSuccess(<<"o">>))),
     Ok(CallResult(resultExit(<<1>>, <<"e">>, <<>>))),
     Ok(CallResult(resultTimeout(defaultTimeout))),
     Throw("outside allowed directory")}

\* `Prompt used:\n${usedPrompt}`
EchoText(usedPrompt) == <<"Prompt used:\n", usedPrompt>>

\* an echo that puts the prompt in the place of the content
withEcho_Replace(result, usedPrompt) ==
    [result EXCEPT !.content = <<TextItem(EchoText(usedPrompt))>>]

\* { ...result, content: [{ type: 'text', text }, ...content] }
withEcho(result, usedPrompt) ==
    [result EXCEPT !.content = <<TextItem(EchoText(usedPrompt))>> \o result.content]

\* runCursorAgent(source, onProgress): inv is what awaiting invokeCursorAgent
\* yields, debugEnv and echoEnv what the getValidatedEnv calls before and
\* after it return. ret is what is returned or thrown, spawned tells whether
\* a child was created.
runCursorAgent(source, inv, debugEnv, echoEnv) ==
    LET usedPrompt == source.prompt
        echoEnabled == \/ echoEnv.value.CURSOR_AGENT_ECHO_PROMPT
                       \/ source.echo_prompt = <<TRUE>>
    IN  IF ~debugEnv.ok THEN [ret |-> Throw(debugEnv.error), spawned |-> FALSE]
        ELSE IF ~inv.ok THEN [ret |-> Throw(inv.error), spawned |-> FALSE]
        ELSE IF ~echoEnv.ok THEN [ret |-> Throw(echoEnv.error), spawned |-> TRUE]
        ELSE [ret |-> Ok(IF echoEnabled THEN withEcho(inv.value, usedPrompt)
                         ELSE inv.value),
              spawned |-> TRUE]

\* { content: [{ type: 'text', text: `Invalid params: ${e?.message || e}` }], isError: true }
InvalidParams(e) ==
    [content |-> <<TextItem(<<"Invalid params: ", e>>)>>, isError |-> <<TRUE>>]

\* try { ... } catch (e) { return { ... Invalid params ... } } of a handler
catchInvalidParams(r) == IF r.ok THEN r ELSE Ok(InvalidParams(r.error))

\* a validation of the first listed path only
validateAll_FirstOnly(list) ==
    IF list = <<>> THEN Ok(<<>>)
    ELSE LET first == validateFilePath(Head(list))
         IN  IF ~first.ok THEN first ELSE Ok(<<first.value>> \o Tail(list))

\* list.map((p) => validateFilePath(p)): the validated paths, or the error of
\* the first path that fails
RECURSIVE validateAll(_)
validateAll(list) ==
    IF list = <<>> THEN Ok(<<>>)
    ELSE LET first == validateFilePath(Head(list))
             rest == validateAll(Tail(list))
         IN  IF ~first.ok THEN first
             ELSE IF ~rest.ok THEN rest
             ELSE Ok(<<first.value>> \o rest.value)

\* the prompt composed by cursor_agent_edit_file
EditPrompt(validatedFile) == <<"Edit the repository file:\n- File: ", validatedFile>>

\* the prompt composed by cursor_agent_analyze_files
AnalyzePrompt(validatedPaths) ==
    <<"Analyze the following paths in the repository:\n">>
        \o [i \in DOMAIN validatedPaths |-> <<"- ", validatedPaths[i]>>]

\* the file paths, prompts, echo_prompt arguments and environments of the calls
ToolPaths == {<<"r">>, <<" ">>, <<".", ".">>, <<".", ".", "/", "r", "x">>}
ToolPrompts == {<<"prompt text">>, <<"-", "x">>}
EchoArgs == {<<>>, <<TRUE>>, <<FALSE>>}
ToolEnvs ==
    {EmptyEnv,
     K_CURSOR_AGENT_ECHO_PROMPT :> <<"1">>,
     K_CURSOR_AGENT_ECHO_PROMPT :> <<"0">>,
     K_CURSOR_AGENT_MODEL :> <<" ">>}

InitTool ==
    /\ procEnv \in ToolEnvs
    /\ validatedEnvCache = StartupCache
    /\ validatedEnvCacheKey = StartupCacheKey
    /\ toolCall = <<>>
    /\ toolReturn = NoResult
    /\ toolSpawns = <<>>
    /\ toolStage = "input"
    /\ PathOff
    /\ ExeOff
    /\ SanOff
    /\ SupOff
    /\ ArgvOff
    /\ StreamOff

\* runCursorAgent called with a prompt and, possibly, echo_prompt
RunCursorAgentCall ==
    /\ toolStage = "input"
    /\ \E prompt \in ToolPrompts, echo \in EchoArgs, inv \in InvokeOutcomes :
          \E got1 \in {getValidatedEnv(procEnv, validatedEnvCache, validatedEnvCacheKey)} :
          \E got2 \in {getValidatedEnv(procEnv, got1.cache, got1.key)} :
          \E run \in {runCursorAgent([prompt |-> prompt, echo_prompt |-> echo],
                                     inv, got1, got2)} :
              /\ toolCall' = <<[tool |-> "runCursorAgent", paths |-> <<>>,
                                echo_prompt |-> echo, inv |-> inv]>>
              /\ toolReturn' = run.ret
              /\ toolSpawns' = IF run.spawned THEN <<prompt>> ELSE <<>>
              /\ validatedEnvCache' = got2.cache
              /\ validatedEnvCacheKey' = got2.key
    /\ toolStage' = "returned"
    /\ UNCHANGED <<procEnv, pathVars, exeVars, sanVars, supVars, argvVars, streamVars>>

\* the handler of a file tool: the paths are validated, the prompt composed
\* from the validated paths is run, anything thrown becomes Invalid params
FileTool(tool, list, validated, prompt) ==
    \E inv \in InvokeOutcomes :
    \E got1 \in {getValidatedEnv(procEnv, validatedEnvCache, validatedEnvCacheKey)} :
    \E got2 \in {getValidatedEnv(procEnv, got1.cache, got1.key)} :
    \E run \in {IF validated.ok
                   THEN runCursorAgent([prompt |-> prompt, echo_prompt |-> <<>>],
                                       inv, got1, got2)
                ELSE [ret |-> Throw(validated.error), spawned |-> FALSE]} :
        /\ toolCall' = <<[tool |-> tool, paths |-> list, echo_prompt |-> <<>>, inv |-> inv]>>
        /\ toolReturn' = catchInvalidParams(run.ret)
        /\ toolSpawns' = IF run.spawned THEN <<prompt>> ELSE <<>>
        /\ validatedEnvCache' = IF validated.ok THEN got2.cache ELSE validatedEnvCache
        /\ validatedEnvCacheKey' = IF validated.ok THEN got2.key ELSE validatedEnvCacheKey

\* the cursor_agent_edit_file tool
EditFileTool ==
    /\ toolStage = "input"
    /\ \E file \in ToolPaths :
          \E validatedFile \in {validateFilePath(file)} :
              FileTool("cursor_agent_edit_file", <<file>>, validatedFile,
                       IF validatedFile.ok THEN EditPrompt(validatedFile.value) ELSE <<>>)
    /\ toolStage' = "returned"
    /\ UNCHANGED <<procEnv, pathVars, exeVars, sanVars, supVars, argvVars, streamVars>>

\* the cursor_agent_analyze_files tool; a single path is a list of one
AnalyzeFilesTool ==
    /\ toolStage = "input"
    /\ \E list \in Strs(ToolPaths, MaxPaths) \ {<<>>} :
          \E validatedPaths \in {validateAll(list)} :
              FileTool("cursor_agent_analyze_files", list, validatedPaths,
                       IF validatedPaths.ok THEN AnalyzePrompt(validatedPaths.value)
                       ELSE <<>>)
    /\ toolStage' = "returned"
    /\ UNCHANGED <<procEnv, pathVars, exeVars, sanVars, supVars, argvVars, streamVars>>

NextTool ==
    \/ RunCursorAgentCall
    \/ EditFileTool
    \/ AnalyzeFilesTool

SpecTool == InitTool /\ [][NextTool]_vars

-----------------------------------------------------------------------------
(* getValidatedEnv called while process.env changes *)

\* the environments process.env goes through: valid and invalid values of
\* recognized variables, and a variable that is not recognized
CfgEnvs ==
    {EmptyEnv,
     K_CURSOR_AGENT_TIMEOUT_MS :> <<"7">>,
     K_CURSOR_AGENT_TIMEOUT_MS :> <<"0">>,
     K_CURSOR_AGENT_MODEL :> <<"gpt-x">>,
     K_CURSOR_AGENT_MODEL :> <<" ">>,
     K_CURSOR_AGENT_FORCE :> <<"1">>,
     K_CURSOR_AGENT_IDLE_EXIT_MS :> <<"0", "5">>,
     (K_CURSOR_AGENT_MODEL :> <<"gpt-x">>) @@ (K_CURSOR_AGENT_FORCE :> <<"1">>),
     <<"OTHER">> :> <<"v">>,
     (<<"OTHER">> :> <<"v">>) @@ (K_CURSOR_AGENT_TIMEOUT_MS :> <<"7">>)}

InitCfg ==
    /\ procEnv = EmptyEnv
    /\ validatedEnvCache = StartupCache
    /\ validatedEnvCacheKey = StartupCacheKey
    /\ toolCall = <<>>
    /\ toolReturn = NoResult
    /\ toolSpawns = <<>>
    /\ toolStage = "input"
    /\ PathOff
    /\ ExeOff
    /\ SanOff
    /\ SupOff
    /\ ArgvOff
    /\ StreamOff

\* process.env is assigned to between two calls
ChangeEnv ==
    /\ toolStage \in {"input", "returned"}
    /\ \E e \in CfgEnvs : e # procEnv /\ procEnv' = e
    /\ UNCHANGED <<validatedEnvCache, validatedEnvCacheKey, pathVars, exeVars, sanVars,
                   supVars, argvVars, streamVars, toolVars>>

\* getValidatedEnv() is called
GetValidatedEnvCall ==
    /\ toolStage \in {"input", "returned"}
    /\ \E got \in {getValidatedEnv(procEnv, validatedEnvCache, validatedEnvCacheKey)} :
            /\ toolCall' = <<[tool |-> "getValidatedEnv", env |-> procEnv]>>
            /\ toolReturn' = IF got.ok THEN Ok(got.value) ELSE Throw(got.error)
            /\ toolSpawns' = <<>>
            /\ validatedEnvCache' = got.cache
            /\ validatedEnvCacheKey' = got.key
    /\ toolStage' = "returned"
    /\ UNCHANGED <<procEnv, pathVars, exeVars, sanVars, supVars, argvVars,
                   streamVars>>

\* invokeCursorAgent() is called with no executable and no cwd: its
\* validations, and the spawn when they pass
InvokeCall ==
    /\ toolStage \in {"input", "returned"}
    /\ \E got1 \in {getValidatedEnv(procEnv, validatedEnvCache, validatedEnvCacheKey)} :
       \E got2 \in {getValidatedEnv(procEnv, got1.cache, got1.key)} :
       \E pro \in {Prologue(Undefined, Undefined, got1, got2)} :
            /\ toolCall' = <<[tool |-> "invokeCursorAgent", env |-> procEnv]>>
            /\ toolReturn' = IF pro.error # <<>> THEN Throw(pro.error[1])
                             ELSE Ok(<<"spawned">>)
            /\ toolSpawns' = IF pro.error # <<>> THEN <<>> ELSE <<pro.cmd.value>>
            /\ validatedEnvCache' = pro.got.cache
            /\ validatedEnvCacheKey' = pro.got.key
    /\ toolStage' = "returned"
    /\ UNCHANGED <<procEnv, pathVars, exeVars, sanVars, supVars, argvVars, streamVars>>

NextCfg == ChangeEnv \/ GetValidatedEnvCall \/ InvokeCall

SpecCfg == InitCfg /\ [][NextCfg]_vars

-----------------------------------------------------------------------------
(* Claims about the validators *)

\* p is the base directory or lies below it: it equals the base or begins
\* with the base followed by the path separator
InsideBase(p) ==
    \/ p = BaseDir
    \/ /\ Len(p) > Len(BaseDir)
       /\ \A i \in 1..Len(BaseDir) : p[i] = BaseDir[i]
       /\ p[Len(BaseDir) + 1] = "/"

\* the sibling of the base directory whose name begins with the base's name
SiblingDir == BaseDir \o <<"x">>

\* the string has a ".." path segment
HasDotDotSegment(p) == \E i \in 1..Len(Split(p, "/")) : Split(p, "/")[i] = DotDot

\* C5 (as claimed): validateExecutablePath returns the sentinel or the
\* configured override, which is an absolute path, or fails; a non-blank
\* input that after trimming is neither of the two is rejected; a blank input
\* yields the override if one is configured and the sentinel otherwise.
C5_Claim ==
    exeStage = "validated" =>
        LET raw == Get(procEnv, K_CURSOR_AGENT_PATH)
            configured == ~Falsy(raw) /\ Trim(raw) # <<>>
            blank == Falsy(explicitInput) \/ Trim(explicitInput) = <<>>
        IN  /\ exeResult.ok =>
                \/ exeResult.value = Sentinel
                \/ configured /\ isAbsolute(exeResult.value)
            /\ exeResult.ok /\ blank /\ ~configured => exeResult.value = Sentinel
            /\ exeResult.ok /\ blank /\ configured => exeResult.value # Sentinel
            /\ exeResult.ok /\ ~blank =>
                \/ Trim(explicitInput) = Sentinel
                \/ configured /\ Trim(explicitInput) = exeResult.value

\* C6 (as claimed): the validators fail whenever resolve(p) of the input p
\* itself is outside the base directory.
C6_Original ==
    pathStage # "input" /\ pathStage # "off" =>
        (~InsideBase(resolve(pathInput)) => ~wdResult.ok /\ ~fpResult.ok)

\* C6 (amended): the validators fail whenever the resolved trimmed input is
\* neither the base directory nor begins with base + separator, a sibling
\* sharing a string prefix with the base included; every returned path is the
\* base directory or a descendant of it.
C6_Containment ==
    pathStage # "input" /\ pathStage # "off" =>
        LET trimmed == Trim(pathInput)
        IN  /\ trimmed # <<>> /\ ~InsideBase(resolve(trimmed))
                => ~wdResult.ok /\ ~fpResult.ok
            /\ trimmed # <<>> /\ resolve(trimmed) = SiblingDir
                => ~wdResult.ok /\ ~fpResult.ok
            /\ wdResult.ok => InsideBase(wdResult.value)
            /\ fpResult.ok => InsideBase(fpResult.value)

\* a path resolving to the prefix-sharing sibling has been rejected by both
C6_Witness ==
    /\ pathStage = "validated"
    /\ resolve(Trim(pathInput)) = SiblingDir
    /\ ~wdResult.ok
    /\ ~fpResult.ok

\* C7 (as claimed): an input with ".." segments that normalizes into the base
\* directory is accepted and the normalized absolute path returned, and
\* validating a returned path returns that same path.
C7_Claim ==
    /\ pathStage \in {"validated", "revalidated"}
            /\ HasDotDotSegment(Trim(pathInput))
            /\ InsideBase(resolve(Trim(pathInput)))
        => /\ wdResult = Ok(resolve(Trim(pathInput)))
           /\ fpResult = Ok(resolve(Trim(pathInput)))
    /\ pathStage = "revalidated" =>
           /\ wdResult.ok => wdAgain = wdResult
           /\ fpResult.ok => fpAgain = fpResult

\* the rule of the sanitized environment: a name on the fixed allow-list, a
\* name that starts with one of the three prefixes, or a recognized variable
NameAllowedByRule(k) ==
    \/ k \in {<<"PATH">>, <<"HOME">>, <<"USER">>, <<"USER", "NAME">>, <<"SHELL">>,
              <<"TMP", "DIR">>, <<"TEMP">>, <<"TMP">>, <<"NODE", "_", "VERSION">>,
              <<"LANG">>, <<"LANG", "UAGE">>, <<"EXECUTING", "_", "CLIENT">>}
    \/ \E pre \in {<<"CURSOR", "_", "AGENT", "_">>, <<"NPM", "_", "CONFIG", "_">>, <<"LC", "_">>} :
            Len(k) >= Len(pre) /\ \A i \in 1..Len(pre) : k[i] = pre[i]
    \/ k \in RecognizedKeys

\* C8: every key of the mapping getSafeEnvironment returns is on the fixed
\* allow-list, starts with CURSOR_AGENT_, NPM_CONFIG_ or LC_, or is a recognized
\* configuration variable; no other key of the ambient environment, a key
\* containing SECRET or TOKEN included, appears in it.
C8_OnlyAllowedKeys ==
    envStage = "built" /\ safeEnvResult.ok =>
        /\ \A k \in DOMAIN safeEnvResult.value : NameAllowedByRule(k)
        /\ \A k \in DOMAIN procEnv :
                ~NameAllowedByRule(k) => k \notin DOMAIN safeEnvResult.value

\* a secret-shaped variable outside the rule was present and has been left
\* out, while an allow-listed variable was copied
C8_Witness ==
    /\ envStage = "built"
    /\ safeEnvResult.ok
    /\ <<"MY", "_", "CURSOR", "_", "AGENT", "_", "TOKEN">> \in DOMAIN procEnv
    /\ <<"MY", "_", "CURSOR", "_", "AGENT", "_", "TOKEN">> \notin DOMAIN safeEnvResult.value
    /\ <<"CURSOR", "_", "AGENT", "_", "SECRET">> \in DOMAIN safeEnvResult.value

-----------------------------------------------------------------------------
(* Claims about the process supervisor *)

\* C1: the invocation is resolved at most once: resolve() is never called a
\* second time, and once a result has been fixed no later event (close, error,
\* timers, data, cancellation) changes it.
C1_ResolvedAtMostOnce ==
    [][/\ Len(resolveCalls') <= 1
       /\ resolveCalls # <<>> => resolveCalls' = resolveCalls
       /\ settled => settled']_vars

\* the main timer fixed the result, and the child's error and close events and
\* a cancellation all arrived afterwards
C1_Witness ==
    /\ Len(resolveCalls) = 1
    /\ resolveCalls[1].kind = "timed out after"
    /\ errorEmitted
    /\ child = "closed"
    /\ signalState = "aborted"

C3_Claim == settled => mainTimer # "pending" /\ idleTimer # "pending"

\* C4: a failed validation of the executable, the working directory or the
\* configuration rejects without creating a child; spawn is called only with
\* the validated executable, the validated working directory, the sanitized
\* environment and shell disabled.
C4_SpawnOnlyValidated ==
    phase \in {"rejected", "spawned", "unspawned"} =>
        LET args == callArgs[1]
            config == ENV_SCHEMA_parse(procEnv)
            got == [ok |-> config.ok, value |-> IF config.ok THEN config.value ELSE <<>>,
                    error |-> IF config.ok THEN <<>> ELSE config.error]
            exe == validateExecutablePath(args.executable, got)
            dir == validateWorkingDirectory(args.cwd)
            san == getSafeEnvironment(procEnv, got)
            allValid == config.ok /\ exe.ok /\ dir.ok
        IN  /\ ~allValid => phase = "rejected" /\ rejection # <<>>
            /\ phase = "rejected" => spawnCalls = <<>> /\ child = "none" /\ resolveCalls = <<>>
            /\ phase = "unspawned" => spawnCalls = <<>> /\ child = "none"
            /\ phase = "spawned" =>
                    /\ allValid
                    /\ Len(spawnCalls) = 1
                    /\ spawnCalls[1].cmd = exe.value
                    /\ spawnCalls[1].cwd = dir.value
                    /\ spawnCalls[1].env = san.value
                    /\ spawnCalls[1].shell = FALSE

\* a call under an invalid configuration has been rejected without a spawn
C4_Witness ==
    /\ phase = "rejected"
    /\ ~ENV_SCHEMA_parse(procEnv).ok
    /\ spawnCalls = <<>>

\* C9: when the main timer fires before any other terminal event the child
\* is sent SIGKILL and the invocation resolves with isError and the text
\* naming the configured timeout; a later close or error does not replace it.
C9_Timeout ==
    mainTimer = "fired" =>
        LET configured == positiveIntMsSchema(Get(procEnv, K_CURSOR_AGENT_TIMEOUT_MS))
        IN  /\ "mainTimer" \in kills
            /\ Len(resolveCalls) = 1
            /\ resolveCalls[1].isError
            /\ resolveCalls[1].kind = "timed out after"
            /\ resolveCalls[1].n = IF configured # <<>> THEN configured ELSE <<30000>>

\* the timeout of 7 ms fired first, the child's close came afterwards
C9_Witness ==
    /\ mainTimer = "fired"
    /\ timeoutMs = 7
    /\ child = "closed"
    /\ resolveCalls[1].n = <<7>>

\* C10: the idle timer fires only after output and force-kills the child;
\* when the close of an idle-killed child is the terminal event the
\* invocation resolves as success carrying the accumulated output.
C10_IdleKillSuccess ==
    /\ killedByIdle => "idleTimer" \in kills /\ idleMs > 0 /\ out # <<>>
    /\ killedByIdle /\ resolveCalls # <<>>
            /\ resolveCalls[1].kind \in {"output", "exited with code"}
        => /\ ~resolveCalls[1].isError
           /\ resolveCalls[1].kind = "output"
           /\ resolveCalls[1].body = out

\* a child killed by the idle timer after a single chunk of output has closed
\* and the invocation resolved with that chunk
C10_Witness ==
    /\ killedByIdle
    /\ child = "closed"
    /\ exitCode = <<>>
    /\ Len(out) = 1
    /\ Len(resolveCalls) = 1
    /\ ~resolveCalls[1].isError
    /\ resolveCalls[1].body = out

-----------------------------------------------------------------------------
(* Claims about cancellation *)

-----------------------------------------------------------------------------
(* Claims about spawn failure *)

\* C15 (as claimed): a spawn failure resolves the invocation with isError and
\* a descriptive message, and on that path neither the hard-timeout timer nor
\* the idle timer is ever armed.
C15_Original ==
    /\ (resolveCalls # <<>> /\ resolveCalls[1].kind = "failed to start") =>
            resolveCalls[1].isError /\ resolveCalls[1].cmd = spawnCalls[1].cmd
    /\ (child = "failing" \/ exitCode = <<SpawnFailureCode>>) =>
            mainTimer \notin {"pending", "fired", "cleared"}
                /\ idleTimer \notin {"pending", "fired", "cleared"}

\* C15 (amended): when the error event of a failed spawn is the terminal
\* event, the invocation resolves with isError and the message naming the
\* command; the hard-timeout timer armed at spawn is cancelled by that
\* transition without having fired, the idle timer was never armed, and the
\* child was sent no signal.
C15_SpawnFailure ==
    (resolveCalls # <<>> /\ resolveCalls[1].kind = "failed to start"
            /\ exitCode = <<SpawnFailureCode>>) =>
        /\ Len(resolveCalls) = 1
        /\ resolveCalls[1].isError
        /\ resolveCalls[1].cmd = spawnCalls[1].cmd
        /\ mainTimer = "cleared"
        /\ idleTimer = "null"
        /\ ~killedByIdle
        /\ kills = {}

\* the spawn of /a failed under a configuration with an idle limit, and the
\* child's close followed the error
C15_Witness ==
    /\ exitCode = <<SpawnFailureCode>>
    /\ child = "closed"
    /\ idleMs > 0
    /\ Len(resolveCalls) = 1
    /\ resolveCalls[1].kind = "failed to start"
    /\ resolveCalls[1].cmd = <<"/", "a">>
    /\ mainTimer = "cleared"

-----------------------------------------------------------------------------
(* Claims about the argument vector *)

\* the number of model flags, and of force flags, in an argument vector
ModelFlagCount(argv) == Cardinality({i \in 1..Len(argv) : IsModelFlag(argv[i])})
ForceFlagCount(argv) == Cardinality({i \in 1..Len(argv) : IsForceFlag(argv[i])})

\* the value that follows the first --model of an argument vector, <<>> when
\* there is none
ModelAfterFlag(argv) ==
    IF \E i \in 1..Len(argv) - 1 : argv[i] = T_model
       THEN <<argv[(CHOOSE i \in 1..Len(argv) - 1 :
                        argv[i] = T_model /\ \A j \in 1..i - 1 : argv[j] # T_model) + 1]>>
    ELSE <<>>

\* C16: when the raw argv already holds a model flag (-m, --model, -m=..,
\* --model=..) the composed argv holds no further model flag and not the
\* requested model, whatever the call and the environment request; a raw -f
\* or --force likewise suppresses the injected -f. For the raw argv
\* ["-m", "custom-model", "prompt text"] under the default model "gpt-x" the
\* composed argv has the one pair -m custom-model and "prompt text" last.
C16_NoDuplicateFlags ==
    (argvStage = "composed" /\ finalArgv.ok) =>
        LET raw == argvCall[1].argv
            composed == finalArgv.value
        IN  /\ ModelFlagCount(raw) > 0 =>
                    /\ ModelFlagCount(composed) = ModelFlagCount(raw)
                    /\ \A i \in 1..Len(composed) :
                            composed[i] \notin {<<"gpt-x">>, <<"gpt-y">>}
            /\ ForceFlagCount(raw) > 0 => ForceFlagCount(composed) = ForceFlagCount(raw)
            /\ (raw = <<T_m, <<"custom-model">>, <<"prompt text">> >>
                    /\ Get(procEnv, K_CURSOR_AGENT_MODEL) = <<"gpt-x">>) =>
                    /\ ModelFlagCount(composed) = 1
                    /\ \E i \in 1..Len(composed) - 1 :
                            composed[i] = T_m /\ composed[i + 1] = <<"custom-model">>
                    /\ composed[Len(composed)] = <<"prompt text">>

\* the scenario of the claim has been composed, under a configuration that
\* also turns force on
C16_Witness ==
    /\ argvStage = "composed"
    /\ argvCall[1].argv = <<T_m, <<"custom-model">>, <<"prompt text">> >>
    /\ Get(procEnv, K_CURSOR_AGENT_MODEL) = <<"gpt-x">>
    /\ Get(procEnv, K_CURSOR_AGENT_FORCE) = <<"1">>
    /\ finalArgv.ok
    /\ ForceFlagCount(finalArgv.value) = 1

\* C17 (as claimed): for every call of runCursorAgent the prompt is the last
\* element of the argv handed to the child.
C17_Claim ==
    (argvStage = "composed" /\ argvCall[1].fn = "runCursorAgent" /\ finalArgv.ok) =>
        /\ Len(finalArgv.value) > 0
        /\ finalArgv.value[Len(finalArgv.value)] = argvCall[1].prompt[1]

\* C18 (as claimed): the options of the call take precedence over the
\* environment's defaults: force=false injects no -f even when the environment
\* turns force on, a non-empty model of the call is the model injected, and
\* the environment's defaults apply only when the call leaves the option unset.
C18_Original ==
    (argvStage = "composed" /\ finalArgv.ok /\ ModelFlagCount(argvCall[1].argv) = 0
            /\ ForceFlagCount(argvCall[1].argv) = 0) =>
        LET call == argvCall[1]
            composed == finalArgv.value
        IN  /\ call.force = <<FALSE>> => ForceFlagCount(composed) = 0
            /\ call.force = <<TRUE>> => ForceFlagCount(composed) = 1
            /\ (call.model # Undefined /\ call.model # <<>>) =>
                    ModelAfterFlag(composed) = <<Trim(call.model)>>
            /\ call.model # Undefined =>
                    ModelAfterFlag(composed) # <<Get(procEnv, K_CURSOR_AGENT_MODEL)>>

\* C18 (amended): force given by the call decides whether -f is injected,
\* whatever the environment says; a model of the call that is not blank is
\* injected, trimmed, instead of the environment's; the environment's force
\* applies when the call gives no force, and the environment's model when the
\* call gives no model or a blank one.
C18_Precedence ==
    (argvStage = "composed" /\ finalArgv.ok /\ ModelFlagCount(argvCall[1].argv) = 0
            /\ ForceFlagCount(argvCall[1].argv) = 0) =>
        LET call == argvCall[1]
            composed == finalArgv.value
            config == ENV_SCHEMA_parse(procEnv).value
            blank == call.model = Undefined \/ Trim(call.model) = <<>>
        IN  /\ call.force = <<FALSE>> => ForceFlagCount(composed) = 0
            /\ call.force = <<TRUE>> => ForceFlagCount(composed) = 1
            /\ call.force = <<>> =>
                    ForceFlagCount(composed) = IF config.CURSOR_AGENT_FORCE THEN 1 ELSE 0
            /\ ~blank => ModelAfterFlag(composed) = <<Trim(call.model)>>
            /\ blank => ModelAfterFlag(composed) =
                            IF config.CURSOR_AGENT_MODEL = Undefined THEN <<>>
                            ELSE <<config.CURSOR_AGENT_MODEL>>

\* under a configuration with force on and the model gpt-x, a call with
\* force=false and the model " gpt-y" was composed with --model gpt-y and
\* without -f
C18_Witness ==
    /\ argvStage = "composed"
    /\ Get(procEnv, K_CURSOR_AGENT_FORCE) = <<"1">>
    /\ Get(procEnv, K_CURSOR_AGENT_MODEL) = <<"gpt-x">>
    /\ argvCall[1].force = <<FALSE>>
    /\ argvCall[1].model = <<" ", "gpt-y">>
    /\ argvCall[1].argv = << <<"prompt text">> >>
    /\ finalArgv.ok
    /\ ForceFlagCount(finalArgv.value) = 0
    /\ ModelAfterFlag(finalArgv.value) = << <<"gpt-y">> >>

-----------------------------------------------------------------------------
(* Claims about the stream decoder *)

\* the lines of the output o that have been handed to the decoder: the
\* complete ones, and the unfinished last one once the child has closed
LinesSeen(o, closed) ==
    LET lines == Split(o, "\n")
    IN  IF closed THEN lines ELSE SubSeq(lines, 1, Len(lines) - 1)

\* the text deltas of the assistant events among the lines, in stream order,
\* leaving out the empty ones
RECURSIVE AssistantDeltas(_)
AssistantDeltas(lines) ==
    IF lines = <<>> THEN <<>>
    ELSE LET text == Trim(Head(lines))
             delta == IF text \in DOMAIN ParsedValues /\ ParsedValues[text].type = "assistant"
                         THEN ParsedValues[text].text ELSE <<>>
         IN  (IF delta # <<>> THEN <<delta>> ELSE <<>>) \o AssistantDeltas(Tail(lines))

\* the number of characters of the first n deltas
RECURSIVE CharsUpTo(_, _)
CharsUpTo(deltas, n) == IF n = 0 THEN 0 ELSE CharsUpTo(deltas, n - 1) + Len(deltas[n])

\* the output holds no event other than assistant events
OnlyAssistantEvents == \A i \in 1..Len(out) : out[i] # "{t}"

\* C19 (as claimed): the decoder makes one onProgress call per assistant event
\* with non-empty text; the message of the call is the text delta of that
\* event alone, and its progress is the number of characters received so far,
\* so it never decreases.
C19_Claim ==
    (onProgress # "none" /\ OnlyAssistantEvents) =>
        LET deltas == AssistantDeltas(LinesSeen(out, child = "closed"))
        IN  /\ Len(progressCalls) = Len(deltas)
            /\ \A i \in 1..Len(progressCalls) :
                    /\ progressCalls[i].message = deltas[i]
                    /\ progressCalls[i].progress = CharsUpTo(deltas, i)
                    /\ i > 1 => progressCalls[i].progress >= progressCalls[i - 1].progress

\* the trimmed line is a well-formed event for which handleStreamEvent calls
\* the consumer
Recognized(line) ==
    /\ Trim(line) \in DOMAIN ParsedValues
    /\ LET event == ParsedValues[Trim(line)]
       IN  \/ event.type = "system" /\ event.subtype = "init"
           \/ event.type = "assistant" /\ event.text # <<>>
           \/ event.type = "tool_call" /\ event.subtype = "started"
           \/ event.type = "tool_call" /\ event.subtype = "completed"
                /\ event.tool \in {"write", "read"} /\ event.result # ""
           \/ event.type = "result"

\* C20: lines that do not parse, events of an unknown type and a consumer
\* that throws leave the result alone and do not stop the decoding: no
\* exception leaves a handler, the result is the one the output, the error
\* output and the exit code determine, and the consumer has been called for
\* every well-formed line handed to the decoder, whatever preceded it.
C20_DecodingIsAdvisory ==
    /\ ~uncaught
    /\ child = "closed" =>
            /\ Len(resolveCalls) = 1
            /\ resolveCalls[1] =
                    IF exitCode = <<0>>
                       THEN [isError |-> FALSE, kind |-> "output", n |-> <<>>,
                             body |-> IF out # <<>> THEN out ELSE <<"(no output)">>,
                             cmd |-> <<>>, envPath |-> <<>>,
                             progressLogFile |-> <<>>, logNote |-> <<>>]
                    ELSE [isError |-> TRUE, kind |-> "exited with code", n |-> exitCode,
                          body |-> IF err # <<>> THEN err
                                   ELSE IF out # <<>> THEN out ELSE <<"(no output)">>,
                          cmd |-> <<>>, envPath |-> <<>>,
                          progressLogFile |-> <<>>, logNote |-> <<>>]
    /\ onProgress # "none" =>
            LET lines == LinesSeen(out, child = "closed")
            IN  Len(progressCalls) = Cardinality({i \in 1..Len(lines) : Recognized(lines[i])})
    /\ onProgress = "none" => progressCalls = <<>>

\* with a consumer that throws, the child wrote a line that does not parse and
\* then a well-formed assistant event, and exited with code 0: the event was
\* delivered and the result is the whole output
C20_Witness ==
    /\ onProgress = "throws"
    /\ out = <<"{a", "\n", "{c}", "\n">>
    /\ child = "closed"
    /\ exitCode = <<0>>
    /\ Len(progressCalls) = 1
    /\ progressCalls[1].progress = 1
    /\ resolveCalls[1].body = out

-----------------------------------------------------------------------------
-----------------------------------------------------------------------------
\* the strings interpolated into a result's text
C22_TextValues(r) ==
    {r.body, r.cmd, r.envPath} \cup {String(r.n[j]) : j \in DOMAIN r.n}

\* C22 (as claimed): the text of an error result (spawn error, non-zero exit,
\* timeout, cancellation) contains no value of a variable of the process
\* environment, so that runs differing only in those values get the same text
C22_Claim ==
    \A i \in 1..Len(resolveCalls) :
        resolveCalls[i].isError =>
            \A k \in DOMAIN procEnv : procEnv[k] \notin C22_TextValues(resolveCalls[i])

-----------------------------------------------------------------------------
\* C23 (as claimed): cursor_agent_raw adds no --print when print is absent
\* or false, and with print true the argv handed to the child starts with
\* --print, --output-format and the output format
C23_Claim ==
    (argvStage = "composed" /\ argvCall[1].fn = "cursor_agent_raw" /\ finalArgv.ok) =>
        IF argvCall[1].toolPrint = <<TRUE>>
           THEN /\ Len(finalArgv.value) >= 3
                /\ finalArgv.value[1] = T_print
                /\ finalArgv.value[2] = T_outputFormat
        ELSE \A i \in DOMAIN finalArgv.value : finalArgv.value[i] # T_print

-----------------------------------------------------------------------------
(* Claims about the tool handlers *)

\* C24: cursor_agent_edit_file and cursor_agent_analyze_files validate every
\* supplied path before anything is run: the handler never throws, and when
\* one of the paths is blank or (trimmed and resolved) lies outside the base
\* directory no child is spawned and the result returned has isError true
C24_PathsValidatedFirst ==
    (toolStage = "returned"
        /\ toolCall[1].tool \in {"cursor_agent_edit_file", "cursor_agent_analyze_files"}) =>
        LET paths == toolCall[1].paths
            Bad(p) == Trim(p) = <<>> \/ ~InsideBase(resolve(Trim(p)))
        IN  /\ toolReturn.ok
            /\ (\E i \in DOMAIN paths : Bad(paths[i])) =>
                    /\ toolSpawns = <<>>
                    /\ toolReturn.value.isError = <<TRUE>>

\* cursor_agent_analyze_files was given a good path followed by an escaping
\* one and returned an error result without a spawn
C24_Witness ==
    /\ toolStage = "returned"
    /\ toolCall[1].tool = "cursor_agent_analyze_files"
    /\ toolCall[1].paths = <<<<"r">>, <<".", ".">>>>
    /\ toolCall[1].inv.ok
    /\ toolSpawns = <<>>
    /\ toolReturn.ok
    /\ toolReturn.value.isError = <<TRUE>>

\* C25: a call that returns the result of a spawned child returns it with
\* exactly one text item "Prompt used:" and the prompt put before the
\* original content items, every other field (isError in particular) as it
\* was, when echo is enabled by CURSOR_AGENT_ECHO_PROMPT or by echo_prompt:
\* true, and returns it unchanged when echo is disabled
C25_EchoPrependsOneItem ==
    (toolStage = "returned" /\ toolSpawns # <<>> /\ toolReturn.ok) =>
        LET call == toolCall[1]
            result == call.inv.value
            returned == toolReturn.value
            enabled == \/ booleanEnvSchema(Get(procEnv, K_CURSOR_AGENT_ECHO_PROMPT))
                       \/ call.echo_prompt = <<TRUE>>
        IN  IF enabled
               THEN /\ Len(returned.content) = Len(result.content) + 1
                    /\ returned.content[1] =
                            [type |-> "text", text |-> <<"Prompt used:\n", toolSpawns[1]>>]
                    /\ Tail(returned.content) = result.content
                    /\ DOMAIN returned = DOMAIN result
                    /\ returned.isError = result.isError
            ELSE returned = result

\* the echo enabled by the environment alone was put before the one item of
\* an error result
C25_Witness ==
    /\ toolStage = "returned"
    /\ toolCall[1].tool = "runCursorAgent"
    /\ toolCall[1].echo_prompt = <<>>
    /\ Get(procEnv, K_CURSOR_AGENT_ECHO_PROMPT) = <<"1">>
    /\ toolReturn.ok
    /\ toolReturn.value.isError = <<TRUE>>
    /\ Len(toolReturn.value.content) = 2

-----------------------------------------------------------------------------
\* the event of a line made of one piece
C26_EventOf(p) == ParsedValues[<<p>>]

\* the number of tool_call/started events among the first n lines of o
C26_StartedUpTo(o, n) ==
    LET lines == Split(o, "\n")
    IN  Cardinality({i \in 1..n : /\ lines[i] \in DOMAIN ParsedValues
                                  /\ ParsedValues[lines[i]].type = "tool_call"
                                  /\ ParsedValues[lines[i]].subtype = "started"})

\* the lines of o that hold the tool_call/started event of the call c
C26_StartsOf(o, c) ==
    LET lines == Split(o, "\n")
    IN  {i \in 1..(Len(lines) - 1) : /\ lines[i] \in DOMAIN ParsedValues
                                     /\ ParsedValues[lines[i]].subtype = "started"
                                     /\ ParsedValues[lines[i]].call = c}

\* C26 (as claimed): the line of a tool_call/completed event whose call was
\* started once before makes the decoder call the consumer once, with the
\* counts of the result when it has them and a generic text otherwise, and
\* with the progress value its own tool_call/started event was given
C26_Claim ==
    [][\A p \in {"{d1}", "{d2}"} :
          (/\ onProgress # "none"
           /\ out' = out \o <<p, "\n">>
           /\ Cardinality(C26_StartsOf(out, C26_EventOf(p).call)) = 1)
          => /\ Len(progressCalls') = Len(progressCalls) + 1
             /\ SubSeq(progressCalls', 1, Len(progressCalls)) = progressCalls
             /\ LET own == CHOOSE i \in C26_StartsOf(out, C26_EventOf(p).call) : TRUE
                IN  progressCalls'[Len(progressCalls')].progress = C26_StartedUpTo(out, own)
      ]_vars

-----------------------------------------------------------------------------
\* the number of the lines that are events the consumer is called for
C27_RecognizedAmong(lines) == Cardinality({i \in 1..Len(lines) : Recognized(lines[i])})

\* the close of the child with a non-empty leftover makes one consumer call
\* for it when it is a recognized event and none otherwise
C27_CloseDecodesLeftover ==
    IF Recognized(partialLine)
       THEN /\ Len(progressCalls') = Len(progressCalls) + 1
            /\ SubSeq(progressCalls', 1, Len(progressCalls)) = progressCalls
    ELSE progressCalls' = progressCalls

\* C27 (as claimed): whenever the child closes with a non-empty partial line
\* left and a consumer attached, the leftover is decoded exactly once
C27_Original ==
    [][(child = "exited" /\ child' = "closed" /\ onProgress # "none"
            /\ Trim(partialLine) # <<>>) => C27_CloseDecodesLeftover]_vars

\* C27 (amended): when the child closes before the invocation has been
\* settled, with a non-empty partial line left and a consumer attached, the
\* leftover is decoded exactly once in the step that returns the result; after
\* a settled invocation the close decodes nothing; and no line is ever decoded
\* twice: the consumer calls never outnumber the recognized lines handed over
C27_LeftoverOnce ==
    /\ [][(child = "exited" /\ child' = "closed" /\ onProgress # "none"
                /\ Trim(partialLine) # <<>>) =>
            IF settled THEN progressCalls' = progressCalls
            ELSE C27_CloseDecodesLeftover /\ Len(resolveCalls') = Len(resolveCalls) + 1]_vars
    /\ [](onProgress # "none" =>
            /\ partialLine = Split(out, "\n")[Len(Split(out, "\n"))]
            /\ Len(progressCalls) =
                    C27_RecognizedAmong(LinesSeen(out, child = "closed" /\ mainTimer # "fired")))

\* the child wrote an assistant event without a newline and closed: the event
\* was delivered at the close, together with the result
C27_Witness ==
    /\ onProgress = "ok"
    /\ out = <<"{c}">>
    /\ child = "closed"
    /\ mainTimer = "cleared"
    /\ Len(progressCalls) = 1
    /\ Len(resolveCalls) = 1
    /\ resolveCalls[1].kind \in {"output", "exited with code"}

-----------------------------------------------------------------------------
\* the event of a recognized line
C28_Event(line) == ParsedValues[Trim(line)]

\* the index of the i-th recognized line among the lines
C28_Index(lines, i) ==
    CHOOSE j \in 1..Len(lines) :
        /\ Recognized(lines[j])
        /\ Cardinality({k \in 1..j : Recognized(lines[k])}) = i

\* the characters of the assistant events among the first j lines
RECURSIVE C28_Chars(_, _)
C28_Chars(lines, j) ==
    IF j = 0 THEN 0
    ELSE C28_Chars(lines, j - 1)
            + (IF Recognized(lines[j]) /\ C28_Event(lines[j]).type = "assistant"
                  THEN Len(C28_Event(lines[j]).text) ELSE 0)

\* the tool calls started among the first j lines
C28_Started(lines, j) ==
    Cardinality({k \in 1..j : /\ Recognized(lines[k])
                              /\ C28_Event(lines[k]).type = "tool_call"
                              /\ C28_Event(lines[k]).subtype = "started"})

\* the progress value of the event of line j, as its place in the stream
\* determines it
C28_Progress(lines, j) ==
    LET event == C28_Event(lines[j])
    IN  CASE event.type = "assistant" -> C28_Chars(lines, j)
          [] event.type = "tool_call" -> C28_Started(lines, j)
          [] event.type = "result" -> 100
          [] OTHER -> 0

\* C28: the consumer is called once per recognized event, in the order of
\* the lines of the output: the i-th call is the call for the i-th
\* recognized line, whatever the chunks the lines arrived in
C28_StreamOrder ==
    onProgress # "none" =>
        LET lines == LinesSeen(out, child = "closed")
        IN  /\ Len(progressCalls) = Cardinality({j \in 1..Len(lines) : Recognized(lines[j])})
            /\ \A i \in 1..Len(progressCalls) :
                    LET j == C28_Index(lines, i)
                    IN  /\ progressCalls[i].progress = C28_Progress(lines, j)
                        /\ (C28_Event(lines[j]).type = "assistant")
                                = (progressCalls[i].message[1] = "Generating response... (")

\* two assistant events, the second one split over chunks and ended by the
\* close, were delivered in their order
C28_Witness ==
    /\ onProgress = "ok"
    /\ out = <<"{c}", "\n", "{a", "b}">>
    /\ child = "closed"
    /\ Len(progressCalls) = 2
    /\ progressCalls[1].progress = 1
    /\ progressCalls[2].progress = 3

-----------------------------------------------------------------------------
\* the decoder's state before the first chunk
C29_Fresh ==
    [partialLine |-> <<>>, accumulatedText |-> <<>>, toolCount |-> 0,
     calls |-> <<>>, thrown |-> FALSE]

\* the consumer calls made when the bytes arrive as one chunk and the child
\* then closes
C29_CallsOfWhole(bytes) ==
    DecodeRest(DecodeChunk(toString(bytes), C29_Fresh, "ok"), "ok").calls

\* C29 (as claimed): once the child has closed, the consumer calls made are
\* those of the concatenation of the chunks written, wherever the chunk
\* boundaries fell
C29_Claim ==
    (onProgress # "none" /\ child = "closed") => progressCalls = C29_CallsOfWhole(written)

-----------------------------------------------------------------------------
(* Claims about the configuration cache *)

\* C30: every call of getValidatedEnv returns (or throws) what validating the
\* values the recognized variables have at the call gives, however
\* process.env was changed before, and in every reachable state the cached
\* value is the validation of the snapshot the cached key was made from
C30_CacheCoherent ==
    /\ validatedEnvCache # <<>> =>
            /\ validatedEnvCacheKey # <<>>
            /\ ENV_SCHEMA_parse(validatedEnvCacheKey[1]) = Ok(validatedEnvCache[1])
    /\ (toolStage = "returned" /\ toolCall[1].tool = "getValidatedEnv") =>
            LET parsed == ENV_SCHEMA_parse(toolCall[1].env)
            IN  /\ toolReturn.ok = parsed.ok
                /\ parsed.ok => toolReturn.value = parsed.value
                /\ ~parsed.ok => toolReturn.error = parsed.error

\* a call under a changed environment returned the validation of its current
\* values, and the cache holds that snapshot
C30_Witness ==
    /\ toolStage = "returned"
    /\ toolCall[1].tool = "getValidatedEnv"
    /\ procEnv = (K_CURSOR_AGENT_TIMEOUT_MS :> <<"7">>)
    /\ toolCall[1].env = procEnv
    /\ toolReturn.ok
    /\ toolReturn.value.CURSOR_AGENT_TIMEOUT_MS = <<7>>
    /\ validatedEnvCacheKey = <<[k \in RecognizedKeys |-> Get(procEnv, k)]>>

-----------------------------------------------------------------------------
\* C31: a call made while the recognized variables do not validate throws
\* and spawns nothing, and leaves the cached value and key as they were,
\* a valid pair; a call made after the cached snapshot has been restored
\* returns the cached value
C31_InvalidConfigKeepsCache ==
    /\ []((toolStage = "returned" /\ ~ENV_SCHEMA_parse(toolCall[1].env).ok) =>
            ~toolReturn.ok /\ toolSpawns = <<>>)
    /\ [](ENV_SCHEMA_parse(validatedEnvCacheKey[1]) = Ok(validatedEnvCache[1]))
    /\ [][/\ (procEnv' = procEnv /\ ~ENV_SCHEMA_parse(procEnv).ok) =>
                /\ validatedEnvCache' = validatedEnvCache
                /\ validatedEnvCacheKey' = validatedEnvCacheKey
          /\ (procEnv' = procEnv /\ toolCall' # toolCall
                  /\ toolCall'[1].tool = "getValidatedEnv"
                  /\ validatedEnvCacheKey = <<[k \in RecognizedKeys |-> Get(procEnv, k)]>>) =>
                /\ toolReturn' = Ok(validatedEnvCache[1])
                /\ validatedEnvCache' = validatedEnvCache]_vars

\* an invocation under a model name that does not validate was rejected
\* while the cache holds the configuration validated before it
C31_Witness ==
    /\ toolStage = "returned"
    /\ toolCall[1] = [tool |-> "invokeCursorAgent", env |-> (K_CURSOR_AGENT_MODEL :> <<" ">>)]
    /\ ~toolReturn.ok
    /\ toolSpawns = <<>>
    /\ validatedEnvCache[1].CURSOR_AGENT_TIMEOUT_MS = <<7>>

-----------------------------------------------------------------------------
\* the recognized variables the validated configuration v holds a value of
C32_Present(v) ==
    {k \in RecognizedKeys :
        \/ k = K_EXECUTING_CLIENT /\ v.EXECUTING_CLIENT # Undefined
        \/ k = K_CURSOR_AGENT_PATH /\ v.CURSOR_AGENT_PATH # Undefined
        \/ k = K_CURSOR_AGENT_MODEL /\ v.CURSOR_AGENT_MODEL # Undefined
        \/ k = K_DEBUG_CURSOR_MCP /\ v.DEBUG_CURSOR_MCP
        \/ k = K_CURSOR_AGENT_ECHO_PROMPT /\ v.CURSOR_AGENT_ECHO_PROMPT
        \/ k = K_CURSOR_AGENT_FORCE /\ v.CURSOR_AGENT_FORCE
        \/ k = K_CURSOR_AGENT_IDLE_EXIT_MS /\ v.CURSOR_AGENT_IDLE_EXIT_MS # <<>>
        \/ k = K_CURSOR_AGENT_TIMEOUT_MS /\ v.CURSOR_AGENT_TIMEOUT_MS # <<>>}

\* the recognized variables that are set and validate to undefined
C32_Absent(env, v) ==
    {k \in RecognizedKeys \cap DOMAIN env :
        \/ k = K_CURSOR_AGENT_PATH /\ v.CURSOR_AGENT_PATH = Undefined
        \/ k = K_CURSOR_AGENT_IDLE_EXIT_MS /\ v.CURSOR_AGENT_IDLE_EXIT_MS = <<>>
        \/ k = K_CURSOR_AGENT_TIMEOUT_MS /\ v.CURSOR_AGENT_TIMEOUT_MS = <<>>}

\* the string the child is to see for a recognized variable that is present
C32_Derived(env, v, k) ==
    CASE k = K_EXECUTING_CLIENT -> v.EXECUTING_CLIENT
      [] k = K_CURSOR_AGENT_PATH ->
            IF isAbsolute(normalize(Trim(env[k]))) THEN normalize(Trim(env[k]))
            ELSE Trim(env[k])
      [] k = K_CURSOR_AGENT_MODEL -> Trim(env[k])
      [] k \in {K_DEBUG_CURSOR_MCP, K_CURSOR_AGENT_ECHO_PROMPT, K_CURSOR_AGENT_FORCE} -> env[k]
      [] k = K_CURSOR_AGENT_IDLE_EXIT_MS -> String(v.CURSOR_AGENT_IDLE_EXIT_MS[1])
      [] k = K_CURSOR_AGENT_TIMEOUT_MS -> String(v.CURSOR_AGENT_TIMEOUT_MS[1])

\* C32: in the mapping getSafeEnvironment returns, every recognized variable
\* with a validated value holds the value derived from the validated
\* configuration (normalized path, trimmed model, decimal string of the
\* integer, the original string of a flag that is on), not the raw value of
\* process.env; a recognized variable that is set and validates to undefined
\* holds its raw value when its name carries an allowed prefix
C32_ValidatedValuesWin ==
    envStage = "built" /\ safeEnvResult.ok =>
        LET v == ENV_SCHEMA_parse(procEnv).value
            safe == safeEnvResult.value
        IN  /\ \A k \in C32_Present(v) :
                    k \in DOMAIN safe /\ safe[k] = C32_Derived(procEnv, v, k)
            /\ \A k \in C32_Absent(procEnv, v) :
                    (\E pre \in {cursorAgentPrefix, npmConfigPrefix, lcPrefix} : StartsWith(k, pre))
                        => k \in DOMAIN safe /\ safe[k] = procEnv[k]

\* the hard timeout was set to "07x" and the idle threshold to "-1": the child
\* sees "7" for the first and the raw "-1" for the second
C32_Witness ==
    /\ envStage = "built"
    /\ safeEnvResult.ok
    /\ Get(procEnv, K_CURSOR_AGENT_TIMEOUT_MS) = <<"0", "7", "x">>
    /\ Get(procEnv, K_CURSOR_AGENT_IDLE_EXIT_MS) = <<"-", "1">>
    /\ safeEnvResult.value[K_CURSOR_AGENT_TIMEOUT_MS] = <<"7">>
    /\ safeEnvResult.value[K_CURSOR_AGENT_IDLE_EXIT_MS] = <<"-", "1">>

-----------------------------------------------------------------------------
\* C33: the idle timer becomes pending only in a step in which stdout data
\* arrives and only under a non-zero idle threshold: with threshold 0 it is
\* never pending; it is not pending after the spawn, and as long as the child
\* has written nothing to stdout no idle kill happens; every stdout chunk
\* under a non-zero threshold leaves the one timer handle pending; stderr data
\* leaves the timer as it is
C33_IdleTimerArming ==
    /\ [](idleMs = 0 => idleTimer # "pending" /\ ~killedByIdle)
    /\ [](written = <<>> => idleTimer # "pending" /\ ~killedByIdle /\ "idleTimer" \notin kills)
    /\ [][/\ (idleTimer' = "pending" /\ idleTimer # "pending") =>
                written' # written /\ idleMs # 0
          /\ (written' # written /\ idleMs # 0) => idleTimer' = "pending"
          /\ err' # err => idleTimer' = idleTimer]_vars

\* under a threshold of 5 ms the timer has fired after the first chunk, the
\* second chunk has armed it again, and stderr data has arrived since
C33_Witness ==
    /\ idleMs = 5
    /\ Len(written) = 2
    /\ killedByIdle
    /\ idleTimer = "pending"
    /\ err # <<>>

-----------------------------------------------------------------------------
\* C34: when the child has ended by itself with a non-zero exit code and the
\* close handler has resolved the invocation, the result is an error that
\* carries that exit code, whether or not the idle timer has fired
C34_Claim ==
    (/\ phase = "spawned"
     /\ child = "closed"
     /\ exitCode # <<>>
     /\ exitCode[1] \notin {0, SpawnFailureCode}
     /\ resolveCalls # <<>>
     /\ resolveCalls[1].kind \in {"output", "exited with code"}) =>
        /\ resolveCalls[1].isError
        /\ resolveCalls[1].kind = "exited with code"
        /\ resolveCalls[1].n = exitCode

-----------------------------------------------------------------------------
\* C35: once the invocation is resolved (by the hard timeout or by a spawn
\* error) no step decodes a line of stdout data and calls the progress
\* consumer: the consumer's calls, the accumulated text and the tool count
\* stay as they were
C35_Claim ==
    [][settled => /\ progressCalls' = progressCalls
                  /\ accumulatedText' = accumulatedText
                  /\ toolCount' = toolCount]_vars

-----------------------------------------------------------------------------
\* the delay the hard-timeout timer is to be armed with under the raw value
\* raw of CURSOR_AGENT_TIMEOUT_MS
C36_Delay(raw) ==
    IF raw = Undefined \/ raw = <<>> THEN 30000
    ELSE LET parsed == parseInt(Trim(raw))
         IN  IF parsed = <<>> \/ parsed[1] < 0 THEN 30000 ELSE parsed[1]

-----------------------------------------------------------------------------
\* environments that agree with env on every allow-listed key, every key with
\* an allowed prefix and the recognized variables: env without its other
\* variables, and that with one other variable set to some value
C37_Variants(env) ==
    LET base == [k \in {x \in DOMAIN env : NameAllowedByRule(x)} |-> env[k]]
    IN  {base} \cup {(u :> val) @@ base : u \in UnlistedKeys, val \in {<<"v">>, <<"w">>}}

\* C37: the mapping getSafeEnvironment returns is a function of the
\* allow-listed part of the ambient environment: called under any environment
\* that agrees with process.env on the allow-listed keys, the keys with an
\* allowed prefix and the recognized variables, it gives the same result,
\* whatever other variables are set and whatever their values
C37_DependsOnAllowedPartOnly ==
    envStage = "built" =>
        \A e2 \in C37_Variants(procEnv) :
            getSafeEnvironment(e2, getValidatedEnv(e2, StartupCache, StartupCacheKey))
                = safeEnvResult

\* a mapping was built under an environment that sets a secret next to HOME
C37_Witness ==
    /\ envStage = "built"
    /\ safeEnvResult.ok
    /\ <<"SECRET", "_", "KEY">> \in DOMAIN procEnv
    /\ <<"HOME">> \in DOMAIN procEnv
    /\ DOMAIN safeEnvResult.value = {<<"HOME">>}

-----------------------------------------------------------------------------
\* the elements of s from position a to position b
C38_Slice(s, a, b) == [i \in 1..(b - a + 1) |-> s[a + i - 1]]

\* C38: the composed argv is the raw argument vector with elements inserted
\* at two places only: the print elements (--print, --output-format and its
\* value, then --stream-partial-output) in front of it, and -f and --model
\* with its value either at its end or, when its last element is a prompt
\* (non-empty, not starting with '-'), immediately before that prompt. Taking
\* the inserted elements out gives the raw vector in its order
C38_RawArgsPreserved ==
    argvStage = "composed" /\ finalArgv.ok =>
        LET raw == argvCall[1].argv
            final == finalArgv.value
            np == IF ~argvCall[1].print THEN 0 ELSE IF argvCall[1].onProgress THEN 4 ELSE 3
            hasPrompt == /\ raw # <<>>
                         /\ raw[Len(raw)] # <<>>
                         /\ raw[Len(raw)][1] # "-"
            cut == IF hasPrompt THEN Len(raw) - 1 ELSE Len(raw)
            k == Len(final) - np - Len(raw)
            front == C38_Slice(final, 1, np)
            injected == C38_Slice(final, np + cut + 1, np + cut + k)
        IN  /\ k \in 0..3
            /\ np > 0 => /\ front[1] = T_print
                         /\ front[2] = T_outputFormat
                         /\ np = 4 => front[3] = T_streamJson /\ front[4] = T_streamPartialOutput
            /\ C38_Slice(final, np + 1, np + cut) = C38_Slice(raw, 1, cut)
            /\ \/ injected = <<>>
               \/ injected = <<T_f>>
               \/ Len(injected) = 2 /\ injected[1] = T_model
               \/ Len(injected) = 3 /\ injected[1] = T_f /\ injected[2] = T_model
            /\ C38_Slice(final, np + cut + k + 1, Len(final)) = C38_Slice(raw, cut + 1, Len(raw))

\* a raw vector of a model flag and a prompt was composed with --print in front and
\* -f inserted between the two
C38_Witness ==
    /\ argvStage = "composed"
    /\ finalArgv.ok
    /\ argvCall[1].argv = <<T_mEq \o <<"x">>, <<"prompt text">>>>
    /\ Len(finalArgv.value) = 6
    /\ finalArgv.value[5] = T_f

-----------------------------------------------------------------------------
\* a validator's containment part made of the first check alone
C39_FirstCheckOnly(trimmed) ==
    IF Contained(resolve(trimmed)) THEN Ok(resolve(trimmed)) ELSE Throw("outside")

\* C39: for every input, validateWorkingDirectory and validateFilePath give
\* what they would give with the first containment check alone: the second
\* check never throws "contains invalid path traversal", because resolving
\* the normalized input gives the same path as resolving the input
C39_SecondCheckNeverRejects ==
    pathStage \in {"validated", "revalidated"} =>
        LET blank == pathInput = Undefined \/ Trim(pathInput) = <<>>
        IN  /\ wdResult = IF blank THEN Ok(BaseDir) ELSE C39_FirstCheckOnly(Trim(pathInput))
            /\ fpResult = IF blank THEN Throw("required") ELSE C39_FirstCheckOnly(Trim(pathInput))
            /\ ~blank => resolve(normalize(Trim(pathInput))) = resolve(Trim(pathInput))

\* the input "..r" names an entry of the base directory: it passed the first
\* check, its normalized form still holds '..', so the second check ran, and
\* it was accepted
C39_Witness ==
    /\ pathStage = "validated"
    /\ pathInput = <<".", ".", "r">>
    /\ wdResult.ok
    /\ fpResult.ok

====
